---- MODULE Spec2Model ----
(***************************************************************************)
(* Model of the WeatherStar 4000 slideshow: the display-cycling controller *)
(* of WeatherStar4000Complete.run (src/weatherstar4000.py), the page list  *)
(* built by update_display_list, and the time-to-live cache of the NOAA    *)
(* API clients (src/weatherstar4000.py, src/weatherstar_modules/           *)
(* weather_api.py).                                                        *)
(*                                                                         *)
(* One iteration of the loop in run() is split at the places where the     *)
(* code reads input: pc = "tick" (clock.tick and the timer increment),     *)
(* "events" (the for loop over pygame.event.get()), "menu" (the nested     *)
(* input loop of show_context_menu), "auto" (the auto-cycle test) and      *)
(* "draw" (the lookup displays[current_display_index] and the rendering).  *)
(* An exception that leaves the try block of run() ends the loop: pc =     *)
(* "crashed".  The periodic data refresh and the drawing routines assign   *)
(* none of the controller's fields and are part of the "draw" step.  The   *)
(* menu keys 2, 3 and 4 assign show_trends, show_historical and            *)
(* music_volume, which neither the page list nor the controller reads;     *)
(* these keys of the dict are not carried.                                 *)
(*                                                                         *)
(* SpecRun follows the process from main() through the constructor,        *)
(* initialize_location and the initial update_weather_data into the loop   *)
(* with its 5-minute refresh, down to the exit status.  SpecRender applies *)
(* the draw routines of the current-conditions and local-forecast pages to *)
(* snapshots with fields missing.                                          *)
(*                                                                         *)
(* The animation state has specifications of its own: SpecFrame (a whole   *)
(* iteration of run() with the page draw, the ticker and the flip),        *)
(* SpecAuto (the loop left alone, with fairness), SpecScroll (the ticker   *)
(* and the news lists), SpecHealth (the health recommendations), SpecIcon  *)
(* (AnimatedIcon.get_current_frame), SpecRadar (fetch_radar_image and      *)
(* draw_radar) and SpecAlerts (EmergencyAlertSystem).                      *)
(***************************************************************************)
EXTENDS Integers, Sequences, FiniteSets, TLC

VARIABLES
    settings,               \* self.settings: the keys present, with their values
    displays,               \* self.displays: the active page list
    current_display_index,  \* self.current_display_index (0-based, as in the code)
    display_timer,          \* self.display_timer, ms on the current page
    is_playing,             \* self.is_playing, the auto-advance flag
    running,                \* the local variable running of run()
    pc,                     \* position of the main thread in run()
    event,                  \* the event being handled ("none" outside the loops)
    hist,                   \* the results of the two previous page-list rebuilds
    now,                    \* time.time(), in seconds
    cache,                  \* self.cache of the API clients, by cache key
    cache_time,             \* self.cache_time of the API clients, by cache key
    memo,                   \* the lru_cache entry of weather_api.get_grid_point
    call,                   \* the API call that returned last
    fetched_at,             \* by key, when its last successful request was made
    last_outcome,           \* by key, how the last call for it ended
    screen,                 \* self.screen: "unset", "ok", "failed" (set_mode raised),
                            \* or "clipped" (a clip rectangle is left set on it)
    point_data,             \* self.point_data
    office,                 \* self.office
    station,                \* self.station
    stations,               \* the local stations['features'] of initialize_location
    weather_data,           \* self.weather_data: the snapshot the pages read
    update_pc,              \* position inside update_weather_data ("idle": not in it)
    last_update,            \* the local variable last_update of run()
    frame_count,            \* the local variable frame_count of run()
    exit_code,              \* the exit status of the process ("none" while it runs)
    upstream,               \* the weather service: "faulty" or "up" (recovered)
    rendered,               \* what the last page draw put on the screen
    scroller,               \* self.scroller, the ScrollingText of the ticker
    news_vertical_scroll,   \* self.news_vertical_scroll, by news source
    frame,                  \* what the last iteration of the loop of run() did
    health_scroll,          \* self.health_scroll_pos and self.health_scroll_dir
    icon,                   \* an AnimatedIcon with several frames
    radar,                  \* the radar fields of the display object (self.ws)
    alerts                  \* the EmergencyAlertSystem

vars == <<settings, displays, current_display_index, display_timer, is_playing,
          running, pc, event, hist, now, cache, cache_time, memo, call,
          fetched_at, last_outcome, screen, point_data, office, station,
          stations, weather_data, update_pc, last_update, frame_count,
          exit_code, upstream, rendered, scroller, news_vertical_scroll,
          frame, health_scroll, icon, radar, alerts>>

ctlVars == <<settings, displays, current_display_index, display_timer,
             is_playing, running, pc, event>>
apiVars == <<now, cache, cache_time, memo, call, fetched_at, last_outcome>>
locVars == <<screen, point_data, office, station, stations>>
animVars == <<scroller, news_vertical_scroll, frame, health_scroll, icon,
              radar, alerts>>
runVarsNoAnim == <<locVars, weather_data, update_pc, last_update,
                   frame_count, exit_code, upstream, rendered>>
runVars == <<locVars, weather_data, update_pc, last_update, frame_count,
             exit_code, upstream, rendered, animVars>>

----------------------------------------------------------------------------
(* Bounds *)

DtShort == 1000
DtLong == 5000
MaxTimer == 16000
MaxKeys == 2
MaxStations == 3
MaxFrames == 4
FrameGapShort == 100
FrameGapLong == 301
MaxMissing == 2
MaxPeriods == 4
TickerDtShort == 100
TickerDtLong == 250
MaxTextWidth == 300
MaxModuleHeadlines == 20
MaxTips == 8
MaxClock == 8
MaxGap == 2
MaxTicks == 3000
RadarGapShort == 200
RadarGapLong == 600
MaxAlerts == 3
StartTime == 100
MaxAlertClock == 200
AlertGapShort == 11
AlertGapLong == 61

Dts == {DtShort, DtLong}

----------------------------------------------------------------------------
(* Program constants *)

DISPLAY_DURATION_MS == 15000
MARINE_INSERT_AT == 9
POINT_MAX_AGE == 3600
STATIONS_MAX_AGE == 3600
OBS_MAX_AGE == 300
FORECAST_MAX_AGE == 1800
HOURLY_MAX_AGE == 1800
GRID_MAX_AGE == 3600
REFRESH_INTERVAL == 300
HEAT_INDEX_ABOVE == 26
WIND_CHILL_BELOW == 10
MIN_PERIODS == 3
SCREEN_WIDTH == 640
SCROLL_SPEED == 100
NEWS_START == 200
NEWS_RESTART == 440
NEWS_TOP == 100
NEWS_ABOVE == -200
NEWS_BELOW == 500
LINE_HEIGHT == 28
HEADLINE_SPACING == 15
MAX_HEADLINES == 20
MODULE_START_Y == 100
MODULE_LINE_HEIGHT == 22
MODULE_VISIBLE == 340
MODULE_STEP == 2
MODULE_PAD == 100
MODULE_RESTART == -50
CHECK_INTERVAL == 60
ALERT_ROTATION == 10
RADAR_FRAMES == 6
RADAR_FRAME_MS == 500
TIPS == 3
TIP_HEIGHT == 22
TIPS_TOP == 311
TIPS_BOTTOM == 440

----------------------------------------------------------------------------
(* The page list *)

\* dict.get(key, default)
Get(s, key, default) == IF key \in DOMAIN s THEN s[key] ELSE default

\* s[key] = value on a dict
Put(s, key, value) ==
    [k \in (DOMAIN s) \cup {key} |-> IF k = key THEN value ELSE s[k]]

\* list.insert(i, x) for 0 <= i <= len(list)
Insert(list, i, x) ==
    SubSeq(list, 1, i) \o <<x>> \o SubSeq(list, i + 1, Len(list))

InitialSettings ==
    [k \in {"show_marine", "show_msn", "show_reddit"} |->
        IF k = "show_marine" THEN FALSE ELSE TRUE]

base_displays ==
    << "CURRENT_CONDITIONS", "EXTENDED_FORECAST", "HOURLY_FORECAST",
       "REGIONAL_OBSERVATIONS", "TRAVEL_CITIES", "LOCAL_FORECAST",
       "ALMANAC", "RADAR", "HAZARDS", "AIR_QUALITY", "TEMPERATURE_GRAPH",
       "WEATHER_RECORDS", "SUN_MOON", "WIND_PRESSURE", "WEEKEND_FORECAST",
       "MONTHLY_OUTLOOK" >>

IsNotProgress(mode) == mode # "PROGRESS"

\* A rebuild that inserts the marine page one place too early.
update_display_list_marine_early(s) ==
    LET l1 == IF Get(s, "show_marine", FALSE)
              THEN Insert(base_displays, MARINE_INSERT_AT - 1, "MARINE_FORECAST")
              ELSE base_displays
        l2 == IF Get(s, "show_msn", FALSE) THEN Append(l1, "MSN_NEWS") ELSE l1
        l3 == IF Get(s, "show_reddit", FALSE) THEN Append(l2, "REDDIT_NEWS") ELSE l2
        l4 == IF Get(s, "show_local_news", FALSE) THEN Append(l3, "LOCAL_NEWS") ELSE l3
    IN  SelectSeq(l4, IsNotProgress)

\* A rebuild that edits the current list in place: it adds what is enabled
\* and missing, and never takes a page out.
update_display_list_in_place(s) ==
    LET has(l, m) == \E i \in 1..Len(l) : l[i] = m
        add(l, k, m) == IF Get(s, k, FALSE) /\ ~has(l, m) THEN Append(l, m) ELSE l
        l1 == IF Get(s, "show_marine", FALSE) /\ ~has(displays, "MARINE_FORECAST")
              THEN Insert(displays, MARINE_INSERT_AT, "MARINE_FORECAST")
              ELSE displays
        l2 == add(l1, "show_msn", "MSN_NEWS")
        l3 == add(l2, "show_reddit", "REDDIT_NEWS")
        l4 == add(l3, "show_local_news", "LOCAL_NEWS")
    IN  SelectSeq(l4, IsNotProgress)

\* update_display_list: the value it assigns to self.displays
update_display_list(s) ==
    LET l1 == IF Get(s, "show_marine", FALSE)
              THEN Insert(base_displays, MARINE_INSERT_AT, "MARINE_FORECAST")
              ELSE base_displays
        l2 == IF Get(s, "show_msn", FALSE) THEN Append(l1, "MSN_NEWS") ELSE l1
        l3 == IF Get(s, "show_reddit", FALSE) THEN Append(l2, "REDDIT_NEWS") ELSE l2
        l4 == IF Get(s, "show_local_news", FALSE) THEN Append(l3, "LOCAL_NEWS") ELSE l3
    IN  SelectSeq(l4, IsNotProgress)

\* The four flags update_display_list reads, as it reads them.
Flags(s) ==
    << Get(s, "show_marine", FALSE), Get(s, "show_msn", FALSE),
       Get(s, "show_reddit", FALSE), Get(s, "show_local_news", FALSE) >>

----------------------------------------------------------------------------
(* The slide controller: one iteration of the loop of run() *)

IndexValid == current_display_index < Len(displays)

\* dt = self.clock.tick(30); self.display_timer += dt
Tick ==
    /\ pc = "tick"
    /\ \E d \in Dts :
         /\ display_timer + d <= MaxTimer
         /\ display_timer' = display_timer + d
    /\ pc' = "events"
    /\ event' = "none"
    /\ UNCHANGED <<settings, displays, current_display_index, is_playing, running>>

\* An advance that stops at the last page.
cycle_display_no_wrap(next_pc) ==
    /\ current_display_index' =
          IF current_display_index + 1 < Len(displays)
          THEN current_display_index + 1 ELSE current_display_index
    /\ display_timer' = 0
    /\ pc' = next_pc

\* cycle_display: old_mode = self.displays[self.current_display_index] raises
\* IndexError when the index is out of range, before anything is assigned.
cycle_display(next_pc) ==
    IF IndexValid
    THEN /\ current_display_index' = (current_display_index + 1) % Len(displays)
         /\ display_timer' = 0
         /\ pc' = next_pc
    ELSE /\ pc' = "crashed"
         /\ UNCHANGED <<current_display_index, display_timer>>

\* pygame.QUIT
EvQuit ==
    /\ pc = "events"
    /\ event' = "quit"
    /\ running' = FALSE
    /\ UNCHANGED <<settings, displays, current_display_index, display_timer,
                   is_playing, pc>>

\* K_ESCAPE in the main view
KeyEscape ==
    /\ pc = "events"
    /\ event' = "escape"
    /\ running' = FALSE
    /\ UNCHANGED <<settings, displays, current_display_index, display_timer,
                   is_playing, pc>>

\* A pause toggle that also restarts the page timer.
KeySpace_resets_timer ==
    /\ pc = "events"
    /\ event' = "space"
    /\ is_playing' = ~is_playing
    /\ display_timer' = 0
    /\ UNCHANGED <<settings, displays, current_display_index, running, pc>>

\* K_SPACE
KeySpace ==
    /\ pc = "events"
    /\ event' = "space"
    /\ is_playing' = ~is_playing
    /\ UNCHANGED <<settings, displays, current_display_index, display_timer,
                   running, pc>>

\* K_RIGHT
KeyRight ==
    /\ pc = "events"
    /\ event' = "right"
    /\ cycle_display("events")
    /\ UNCHANGED <<settings, displays, is_playing, running>>

\* K_LEFT without the timer reset
KeyLeft_keep_timer ==
    /\ pc = "events"
    /\ event' = "left"
    /\ IF IndexValid
       THEN /\ current_display_index' = (current_display_index - 1) % Len(displays)
            /\ UNCHANGED display_timer
            /\ UNCHANGED pc
       ELSE /\ pc' = "crashed"
            /\ UNCHANGED <<current_display_index, display_timer>>
    /\ UNCHANGED <<settings, displays, is_playing, running>>

\* K_LEFT: the lookup of old_mode raises IndexError on an index out of range.
KeyLeft ==
    /\ pc = "events"
    /\ event' = "left"
    /\ IF IndexValid
       THEN /\ current_display_index' = (current_display_index - 1) % Len(displays)
            /\ display_timer' = 0
            /\ UNCHANGED pc
       ELSE /\ pc' = "crashed"
            /\ UNCHANGED <<current_display_index, display_timer>>
    /\ UNCHANGED <<settings, displays, is_playing, running>>

\* MOUSEBUTTONDOWN, button 1: opens a headline's URL, no controller state
LeftClick ==
    /\ pc = "events"
    /\ event' = "left_click"
    /\ UNCHANGED <<settings, displays, current_display_index, display_timer,
                   is_playing, running, pc>>

\* MOUSEBUTTONDOWN, button 3, or K_m: show_context_menu()
OpenMenu ==
    /\ pc = "events"
    /\ event' \in {"right_click", "m"}
    /\ pc' = "menu"
    /\ UNCHANGED <<settings, displays, current_display_index, display_timer,
                   is_playing, running>>

\* show_context_menu, lines 893-909: the value the menu draws in the checkbox
\* of each page item (menu_items), read when the menu is drawn.
menu_items(s) ==
    [name \in {"show_marine", "show_msn", "show_reddit", "show_local_news"} |->
        Get(s, name, name = "show_local_news")]

\* A menu toggle whose rebuild edits the current list in place.
MenuToggle_in_place(key, name, default) ==
    /\ pc = "menu"
    /\ event' = key
    /\ settings' = Put(settings, name, ~Get(settings, name, default))
    /\ displays' = update_display_list_in_place(settings')
    /\ UNCHANGED <<current_display_index, display_timer, is_playing, running, pc>>

\* A menu toggle whose rebuild also goes back to the first page.
MenuToggle_resets_index(key, name, default) ==
    /\ pc = "menu"
    /\ event' = key
    /\ settings' = Put(settings, name, ~Get(settings, name, default))
    /\ displays' = update_display_list(settings')
    /\ current_display_index' = 0
    /\ UNCHANGED <<display_timer, is_playing, running, pc>>

\* K_1, K_5, K_6, K_7 in the menu: flip the setting, update_display_list(),
\* then show the menu again (the menu stays open).
MenuToggle(key, name, default) ==
    /\ pc = "menu"
    /\ event' = key
    /\ settings' = Put(settings, name, ~Get(settings, name, default))
    /\ displays' = update_display_list(settings')
    /\ UNCHANGED <<current_display_index, display_timer, is_playing, running, pc>>

MenuKey1 == MenuToggle("menu_1", "show_marine", FALSE)
MenuKey5 == MenuToggle("menu_5", "show_msn", FALSE)
MenuKey6 == MenuToggle("menu_6", "show_reddit", FALSE)
MenuKey7 == MenuToggle("menu_7", "show_local_news", TRUE)

\* K_r in the menu: self.get_weather_data() is not defined anywhere, the
\* AttributeError leaves show_context_menu and the try block of run().
MenuKeyR ==
    /\ pc = "menu"
    /\ event' = "menu_r"
    /\ pc' = "crashed"
    /\ UNCHANGED <<settings, displays, current_display_index, display_timer,
                   is_playing, running>>

\* K_ESCAPE in the menu, or a click outside it: waiting = False
MenuClose ==
    /\ pc = "menu"
    /\ event' \in {"menu_escape", "menu_click_outside"}
    /\ pc' = "events"
    /\ UNCHANGED <<settings, displays, current_display_index, display_timer,
                   is_playing, running>>

\* The for loop over the events of this frame is exhausted.
EndEvents ==
    /\ pc = "events"
    /\ event' = "none"
    /\ pc' = "auto"
    /\ UNCHANGED <<settings, displays, current_display_index, display_timer,
                   is_playing, running>>

\* if self.is_playing and self.display_timer >= DISPLAY_DURATION_MS:
\*     self.cycle_display()
AutoCycle ==
    /\ pc = "auto"
    /\ IF is_playing /\ display_timer >= DISPLAY_DURATION_MS
       THEN cycle_display("draw")
       ELSE /\ pc' = "draw"
            /\ UNCHANGED <<current_display_index, display_timer>>
    /\ UNCHANGED <<settings, displays, is_playing, running, event>>

\* current_mode = self.displays[self.current_display_index] (outside the inner
\* try: an IndexError ends the loop), the page's draw routine, the ticker,
\* the flip, and the test of the while loop.
DrawFrame ==
    /\ pc = "draw"
    /\ pc' = IF ~IndexValid THEN "crashed"
             ELSE IF running THEN "tick" ELSE "exited"
    /\ UNCHANGED <<settings, displays, current_display_index, display_timer,
                   is_playing, running, event>>

----------------------------------------------------------------------------
(* The API clients and their time-to-live cache.  The five operations of   *)
(* NOAAWeatherAPI in weatherstar4000.py use the keys "point", "stations",  *)
(* "obs", "forecast" and "hourly"; get_grid_point of the NOAAWeatherAPI in *)
(* weather_api.py uses the key "grid" in the dicts of its own object.  A   *)
(* request is bounded by timeout=10, far below every max-age: the reads of *)
(* time.time() within one call are taken at the same instant.            *)

MainKeys == {"point", "stations", "obs", "forecast", "hourly"}
Keys == MainKeys \cup {"grid"}

\* The instants at which calls are made.
Instants == {0, 200, 300, 1800, 3600, 3800}

\* What requests.get() meets: a network error or a timeout (an exception of
\* requests), or a response with a status code and a body; "json" is a body
\* that parses to an object with the key 'properties', "garbage" one that
\* resp.json() cannot parse.  300 is a status requests does not follow as a
\* redirect and raise_for_status() does not raise for.
StatusCodes == {200, 300, 503}

NoResponse == [err |-> "none", status |-> 0, body |-> "none"]

Responses ==
    {[err |-> e, status |-> 0, body |-> "none"] : e \in {"network", "timeout"}}
    \cup {[err |-> "none", status |-> st, body |-> b] :
              st \in StatusCodes, b \in {"json", "garbage"}}

NoCall == [op |-> "none", issued |-> FALSE, result |-> "None", resp |-> NoResponse]

EmptyDict == [k \in {} |-> 0]

MaxAge(k) ==
    CASE k = "point" -> POINT_MAX_AGE
      [] k = "stations" -> STATIONS_MAX_AGE
      [] k = "obs" -> OBS_MAX_AGE
      [] k = "forecast" -> FORECAST_MAX_AGE
      [] k = "hourly" -> HOURLY_MAX_AGE
      [] k = "grid" -> GRID_MAX_AGE

ApiInit ==
    /\ now = 0
    /\ cache = EmptyDict
    /\ cache_time = EmptyDict
    /\ memo = "unset"
    /\ call = NoCall
    /\ fetched_at = EmptyDict
    /\ last_outcome = EmptyDict

\* _is_cache_valid(key, max_age)
is_cache_valid(key, max_age) ==
    /\ key \in DOMAIN cache_time
    /\ now - cache_time[key] < max_age

\* Each behaviour makes calls for at most MaxKeys different cache keys.
MayCall(k) == Cardinality(DOMAIN last_outcome \cup {k}) <= MaxKeys

\* The wall clock moves on between two calls.
AdvanceTime ==
    /\ \E t \in Instants : t > now /\ now' = t
    /\ UNCHANGED <<cache, cache_time, memo, call, fetched_at, last_outcome>>

\* get_point_data, get_stations, get_current_observations, get_forecast and
\* get_hourly_forecast of weatherstar4000.NOAAWeatherAPI: the five methods
\* differ in the key, the URL and the max-age only.  The body of the try
\* block returns the data only for status 200 with a body that parses;
\* every other status falls through to return None, and except Exception
\* turns every exception of requests.get and resp.json() into return None.
MainOk(r) == r.err = "none" /\ r.status = 200 /\ r.body = "json"

Fetch(k, responses) ==
    /\ IF is_cache_valid(k, MaxAge(k))
       THEN /\ call' = [op |-> k, issued |-> FALSE, result |-> cache[k],
                        resp |-> NoResponse]
            /\ last_outcome' = Put(last_outcome, k, "hit")
            /\ UNCHANGED <<cache, cache_time, fetched_at>>
       ELSE \E r \in responses :
              IF MainOk(r)
              THEN /\ cache' = Put(cache, k, "data")
                   /\ cache_time' = Put(cache_time, k, now)
                   /\ call' = [op |-> k, issued |-> TRUE, result |-> "data",
                               resp |-> r]
                   /\ fetched_at' = Put(fetched_at, k, now)
                   /\ last_outcome' = Put(last_outcome, k, "fetched")
              ELSE /\ call' = [op |-> k, issued |-> TRUE, result |-> "None",
                               resp |-> r]
                   /\ last_outcome' = Put(last_outcome, k, "failed")
                   /\ UNCHANGED <<cache, cache_time, fetched_at>>
    /\ UNCHANGED memo

\* One call of an operation from outside, at the current instant.
MainCall(k) ==
    /\ MayCall(k)
    /\ Fetch(k, Responses)
    /\ UNCHANGED now

get_point_data == MainCall("point")
get_stations == MainCall("stations")
get_current_observations == MainCall("obs")
get_forecast == MainCall("forecast")
get_hourly_forecast == MainCall("hourly")

\* WeatherAPIBase._fetch_json: raise_for_status() raises HTTPError for the
\* statuses 400..599 only; RequestException (network error, timeout,
\* HTTPError) and JSONDecodeError are caught and give None; everything else
\* gives the parsed body.
fetch_json(r) ==
    IF r.err # "none" THEN "None"
    ELSE IF r.status >= 400 /\ r.status < 600 THEN "None"
    ELSE IF r.body = "garbage" THEN "None"
    ELSE "data"

\* get_grid_point of weather_api.NOAAWeatherAPI, called again with the same
\* (self, lat, lon).  @lru_cache answers every call after the first from its
\* own table, whatever the first call returned; the body runs only when the
\* table has no entry.
get_grid_point ==
    /\ MayCall("grid")
    /\ IF memo # "unset"
       THEN /\ call' = [op |-> "grid", issued |-> FALSE, result |-> memo,
                        resp |-> NoResponse]
            /\ last_outcome' = Put(last_outcome, "grid", "hit")
            /\ UNCHANGED <<cache, cache_time, memo, fetched_at>>
       ELSE IF is_cache_valid("grid", GRID_MAX_AGE)
            THEN /\ call' = [op |-> "grid", issued |-> FALSE,
                             result |-> cache["grid"], resp |-> NoResponse]
                 /\ memo' = cache["grid"]
                 /\ last_outcome' = Put(last_outcome, "grid", "hit")
                 /\ UNCHANGED <<cache, cache_time, fetched_at>>
            ELSE \E r \in Responses :
                   IF fetch_json(r) = "data"
                   THEN /\ cache' = Put(cache, "grid", "data")
                        /\ cache_time' = Put(cache_time, "grid", now)
                        /\ call' = [op |-> "grid", issued |-> TRUE,
                                    result |-> "data", resp |-> r]
                        /\ memo' = "data"
                        /\ fetched_at' = Put(fetched_at, "grid", now)
                        /\ last_outcome' = Put(last_outcome, "grid", "fetched")
                   ELSE /\ call' = [op |-> "grid", issued |-> TRUE,
                                    result |-> "None", resp |-> r]
                        /\ memo' = "None"
                        /\ last_outcome' = Put(last_outcome, "grid", "failed")
                        /\ UNCHANGED <<cache, cache_time, fetched_at>>
    /\ UNCHANGED now

NextApi ==
    \/ AdvanceTime /\ UNCHANGED <<ctlVars, hist, runVars>>
    \/ get_point_data /\ UNCHANGED <<ctlVars, hist, runVars>>
    \/ get_stations /\ UNCHANGED <<ctlVars, hist, runVars>>
    \/ get_current_observations /\ UNCHANGED <<ctlVars, hist, runVars>>
    \/ get_forecast /\ UNCHANGED <<ctlVars, hist, runVars>>
    \/ get_hourly_forecast /\ UNCHANGED <<ctlVars, hist, runVars>>
    \/ get_grid_point /\ UNCHANGED <<ctlVars, hist, runVars>>

----------------------------------------------------------------------------
(* The fields __init__ sets for the location and the snapshot (lines 436,  *)
(* 458-460) and the locals of run() before the loop.                       *)

\* self.weather_data = {}: a field not yet loaded reads as {} (the default of
\* weather_data.get); loaded data is told apart by the instant of the
\* request that delivered it.
NoData == [current |-> {}, forecast |-> {}, hourly |-> {}]

NothingRendered ==
    [page |-> "none", elements |-> {}, wind |-> "none", ceiling |-> "none",
     raised |-> FALSE]

RunInit ==
    /\ screen = "ok"
    /\ point_data = "None"
    /\ office = "None"
    /\ station = "None"
    /\ stations = << >>
    /\ weather_data = NoData
    /\ update_pc = "idle"
    /\ last_update = 0
    /\ frame_count = 0
    /\ exit_code = "none"
    /\ upstream = "faulty"
    /\ rendered = NothingRendered

----------------------------------------------------------------------------
(* The animation state when the loop of run() starts.  Lengths are in      *)
(* pixels, the offsets of the vertical scrolls in half pixels (the scrolls *)
(* move by 0.5 per frame).                                                 *)

\* No iteration of the loop has run.  ticker: the banner and the text of
\* the ticker were painted; flipped: the frame was presented; lines: the
\* headlines a news page was given, each as the number of lines it takes.
NoFrame == [page |-> "none", raised |-> FALSE, ticker |-> FALSE,
            flipped |-> FALSE, lines |-> << >>]

\* ScrollingText.__init__ (line 130) and _update_scroll_text (line 3443):
\* scroll_x = SCREEN_WIDTH; text_width is font.size(current_text)[0].
ScrollerInit(w) == [scroll_x |-> SCREEN_WIDTH, text_width |-> w, wrapped |-> FALSE]

\* The attributes health_scroll_pos and health_scroll_dir do not exist yet.
NoHealthScroll == [exists |-> FALSE, pos |-> 0, dir |-> 0, clamped |-> FALSE,
                   updated |-> FALSE, tips |-> TIPS]

\* An icon that was not asked for a frame yet.
\* AnimatedIcon.__init__, lines 24-38: no frame is loaded.  called_at is
\* the time.time() of the last call of get_current_frame, started that of
\* the first one, returned the index of the frame it returned (-1: none).
NoIcon == [durations |-> << >>, last_update |-> 0, current_frame |-> 0,
           started |-> 0, called_at |-> 0, returned |-> -1]

\* No radar fetch and no radar draw has happened: radar_frames is the
\* number of frames of the list, -1 stands for an attribute that does not
\* exist yet, read is what the last draw_radar did at line 1007.
NoRadar == [radar_frames |-> -1, radar_frame_index |-> -1,
            radar_last_update |-> -1, read |-> "none"]

\* EmergencyAlertSystem.__init__, lines 41-45: active_alerts is the number
\* of alerts of the list; drawn is what the last draw_emergency_screen did
\* at line 147.
NoAlerts == [active_alerts |-> 0, last_check |-> 0, current_alert_index |-> 0,
             alert_display_time |-> 0, drawn |-> "none"]

AnimInit ==
    /\ scroller = ScrollerInit(0)
    /\ news_vertical_scroll = EmptyDict
    /\ frame = NoFrame
    /\ health_scroll = NoHealthScroll
    /\ icon = NoIcon
    /\ radar = NoRadar
    /\ alerts = NoAlerts

----------------------------------------------------------------------------
(* Specification of the controller *)

Init ==
    /\ settings = InitialSettings
    /\ displays = update_display_list(InitialSettings)
    /\ current_display_index = 0
    /\ display_timer = 0
    /\ is_playing = TRUE
    /\ running = TRUE
    /\ pc = "tick"
    /\ event = "none"
    /\ hist = << >>
    /\ ApiInit
    /\ RunInit
    /\ AnimInit

Next ==
    \/ Tick /\ UNCHANGED <<hist, apiVars, runVars>>
    \/ EvQuit /\ UNCHANGED <<hist, apiVars, runVars>>
    \/ KeyEscape /\ UNCHANGED <<hist, apiVars, runVars>>
    \/ KeySpace /\ UNCHANGED <<hist, apiVars, runVars>>
    \/ KeyRight /\ UNCHANGED <<hist, apiVars, runVars>>
    \/ KeyLeft /\ UNCHANGED <<hist, apiVars, runVars>>
    \/ LeftClick /\ UNCHANGED <<hist, apiVars, runVars>>
    \/ OpenMenu /\ UNCHANGED <<hist, apiVars, runVars>>
    \/ MenuKey1 /\ UNCHANGED <<hist, apiVars, runVars>>
    \/ MenuKey5 /\ UNCHANGED <<hist, apiVars, runVars>>
    \/ MenuKey6 /\ UNCHANGED <<hist, apiVars, runVars>>
    \/ MenuKey7 /\ UNCHANGED <<hist, apiVars, runVars>>
    \/ MenuKeyR /\ UNCHANGED <<hist, apiVars, runVars>>
    \/ MenuClose /\ UNCHANGED <<hist, apiVars, runVars>>
    \/ EndEvents /\ UNCHANGED <<hist, apiVars, runVars>>
    \/ AutoCycle /\ UNCHANGED <<hist, apiVars, runVars>>
    \/ DrawFrame /\ UNCHANGED <<hist, apiVars, runVars>>

Spec == Init /\ [][Next]_vars

----------------------------------------------------------------------------
(* Specification of the page list: the user opens the settings menu in   *)
(* the first frame and presses the toggle keys in any order.  hist keeps   *)
(* what the two previous rebuilds started from.                            *)

Remember ==
    LET h == <<[flags |-> Flags(settings), list |-> displays]>> \o hist
    IN  hist' = IF Len(h) > 2 THEN SubSeq(h, 1, 2) ELSE h

NextPages ==
    \/ Tick /\ UNCHANGED <<hist, apiVars, runVars>>
    \/ OpenMenu /\ UNCHANGED <<hist, apiVars, runVars>>
    \/ MenuKey1 /\ Remember /\ UNCHANGED <<apiVars, runVars>>
    \/ MenuKey5 /\ Remember /\ UNCHANGED <<apiVars, runVars>>
    \/ MenuKey6 /\ Remember /\ UNCHANGED <<apiVars, runVars>>
    \/ MenuKey7 /\ Remember /\ UNCHANGED <<apiVars, runVars>>

SpecPages == Init /\ [][NextPages]_vars

SpecApi == Init /\ [][NextApi]_vars

----------------------------------------------------------------------------
(* Startup, the weather refresh and the exit status: main(), __init__,     *)
(* initialize_location, update_weather_data and the refresh test of run(). *)
(* There is no thread in the program: update_weather_data runs inside the  *)
(* call made by run(); update_pc is its position and pc stays at the call  *)
(* ("initial_update", "in_refresh") until it returns.  Of the events of a  *)
(* frame only those that clear running are kept here, and the page shown   *)
(* is left to Spec.  A request is answered within timeout=10; the reads of *)
(* time.time() within one frame are taken at the same instant.  A point    *)
(* body that parses is taken with all its properties (gridId,              *)
(* observationStations).                                                   *)

pageVars == <<settings, displays, current_display_index, display_timer,
              is_playing, event>>

\* A station identifier is the sequence of its characters.
KJFK == <<"K", "J", "F", "K">>
KUCA == <<"K", "U", "C", "A">>
UHHH == <<"U", "H", "H", "H">>
CYYZ == <<"C", "Y", "Y", "Z">>
BUOY5 == <<"4", "1", "0", "0", "1">>

StationIds == {KJFK, KUCA, UHHH, CYYZ, BUOY5}

\* The lists stations['features'] can be: up to MaxStations identifiers.
StationLists == UNION {[1..n -> StationIds] : n \in 0..MaxStations}

\* len(station_id) == 4 and not station_id[0] in 'UC'
IsPreferred(station_id) ==
    Len(station_id) = 4 /\ station_id[1] \notin {"U", "C"}

\* A selection that takes the first 4-character identifier, whatever its
\* first character.
select_station_any_four(features) ==
    IF features = << >> THEN "None"
    ELSE IF \E i \in 1..Len(features) : Len(features[i]) = 4
         THEN features[CHOOSE i \in 1..Len(features) :
                          /\ Len(features[i]) = 4
                          /\ \A j \in 1..(i - 1) : Len(features[j]) # 4]
         ELSE features[1]

\* initialize_location, lines 747-757: self.station after the loop over the
\* features (the first one that passes the test, then break) and after the
\* fallback to features[0]; self.station is None before, and an empty list
\* is skipped by the test on line 747.
select_station(features) ==
    IF features = << >> THEN "None"
    ELSE IF \E i \in 1..Len(features) : IsPreferred(features[i])
         THEN features[CHOOSE i \in 1..Len(features) :
                          /\ IsPreferred(features[i])
                          /\ \A j \in 1..(i - 1) : ~IsPreferred(features[j])]
         ELSE features[1]

\* What the weather service answers: anything while it is faulty, a good
\* response once it has recovered.
Upstream ==
    IF upstream = "up"
    THEN {[err |-> "none", status |-> 200, body |-> "json"]}
    ELSE Responses

\* __init__: pygame.init() and display.set_mode(); when either raises, the
\* error is logged and sys.exit(1) ends the process.
Construct ==
    /\ pc = "construct"
    /\ \E ok \in BOOLEAN :
         IF ok
         THEN /\ screen' = "ok"
              /\ pc' = "run"
              /\ UNCHANGED exit_code
         ELSE /\ screen' = "failed"
              /\ pc' = "exited"
              /\ exit_code' = 1
    /\ UNCHANGED <<pageVars, running, hist, apiVars, point_data, office,
                   station, stations, weather_data, update_pc, last_update,
                   frame_count, upstream, rendered>>

\* run() calls initialize_location(): get_point_data; without point data it
\* returns False, run() logs "Failed to initialize location, exiting" and
\* returns, and main() returns after it: the process ends with status 0.
InitLocationPoint ==
    /\ pc = "run"
    /\ Fetch("point", Upstream)
    /\ point_data' = call'.result
    /\ IF call'.result = "None"
       THEN /\ pc' = "exited"
            /\ exit_code' = 0
            /\ UNCHANGED office
       ELSE /\ pc' = "init_stations"
            /\ office' = "set"
            /\ UNCHANGED exit_code
    /\ UNCHANGED <<pageVars, running, hist, now, screen, station, stations,
                   weather_data, update_pc, last_update, frame_count,
                   upstream, rendered>>

\* initialize_location, lines 744-747: get_stations(stations_url)
InitLocationStations ==
    /\ pc = "init_stations"
    /\ Fetch("stations", Upstream)
    /\ IF call'.result = "None"
       THEN stations' = << >>
       ELSE \E features \in StationLists : stations' = features
    /\ pc' = "select_station"
    /\ UNCHANGED <<pageVars, running, hist, now, screen, point_data, office,
                   station, weather_data, update_pc, last_update, frame_count,
                   exit_code, upstream, rendered>>

\* initialize_location, lines 747-763: the selection, then return True
SelectStation ==
    /\ pc = "select_station"
    /\ station' = select_station(stations)
    /\ pc' = "call_update"
    /\ UNCHANGED <<pageVars, running, hist, apiVars, screen, point_data,
                   office, stations, weather_data, update_pc, last_update,
                   frame_count, exit_code, upstream, rendered>>

\* An initial update handed to a loader thread: run() enters the loop at once.
StartInitialUpdate_background ==
    /\ pc = "call_update"
    /\ pc' = "tick"
    /\ update_pc' = "guard"
    /\ stations' = << >>
    /\ UNCHANGED <<pageVars, running, hist, apiVars, screen, point_data,
                   office, station, weather_data, last_update, frame_count,
                   exit_code, upstream, rendered>>

\* run(), line 3437: self.update_weather_data(), called on the main thread;
\* the locals of initialize_location are gone.
StartInitialUpdate ==
    /\ pc = "call_update"
    /\ pc' = "initial_update"
    /\ update_pc' = "guard"
    /\ stations' = << >>
    /\ UNCHANGED <<pageVars, running, hist, apiVars, screen, point_data,
                   office, station, weather_data, last_update, frame_count,
                   exit_code, upstream, rendered>>

\* update_weather_data, lines 769-771
UpdateGuard ==
    /\ update_pc = "guard"
    /\ update_pc' = IF station = "None" \/ office = "None" THEN "idle" ELSE "obs"
    /\ UNCHANGED <<ctlVars, hist, apiVars, locVars, weather_data, last_update,
                   frame_count, exit_code, upstream, rendered>>

\* A fetch step that empties the field when the operation returned no data.
UpdateField_clears_on_failure(at, k, field, next) ==
    /\ update_pc = at
    /\ Fetch(k, Upstream)
    /\ weather_data' = IF call'.result # "None"
                       THEN [weather_data EXCEPT ![field] = {fetched_at'[k]}]
                       ELSE [weather_data EXCEPT ![field] = {}]
    /\ update_pc' = next
    /\ UNCHANGED <<ctlVars, hist, now, locVars, last_update, frame_count,
                   exit_code, upstream, rendered>>

\* One of the three fetches of update_weather_data: the field is assigned
\* when the operation returned data (if obs: ...).
UpdateField(at, k, field, next) ==
    /\ update_pc = at
    /\ Fetch(k, Upstream)
    /\ weather_data' = IF call'.result # "None"
                       THEN [weather_data EXCEPT ![field] = {fetched_at'[k]}]
                       ELSE weather_data
    /\ update_pc' = next
    /\ UNCHANGED <<ctlVars, hist, now, locVars, last_update, frame_count,
                   exit_code, upstream, rendered>>

\* lines 773-777
UpdateObs == UpdateField("obs", "obs", "current", "forecast")
\* lines 779-787
UpdateForecast == UpdateField("forecast", "forecast", "forecast", "hourly")
\* lines 789-797; fetch_radar_image catches its own exceptions
UpdateHourly == UpdateField("hourly", "hourly", "hourly", "idle")

\* run(), lines 3440-3447: the call has returned; running = True,
\* last_update = time.time(), frame_count = 0
InitialUpdateReturns ==
    /\ pc = "initial_update"
    /\ update_pc = "idle"
    /\ last_update' = now
    /\ pc' = "tick"
    /\ UNCHANGED <<pageVars, running, hist, apiVars, locVars, weather_data,
                   update_pc, frame_count, exit_code, upstream, rendered>>

FrameGaps == {FrameGapShort, FrameGapLong}

\* lines 3450-3453: the next iteration of the loop, some time later
RunTick ==
    /\ pc = "tick"
    /\ frame_count < MaxFrames
    /\ frame_count' = frame_count + 1
    /\ \E d \in FrameGaps : now' = now + d
    /\ pc' = "events"
    /\ UNCHANGED <<pageVars, running, hist, cache, cache_time, memo, call,
                   fetched_at, last_outcome, locVars, weather_data, update_pc,
                   last_update, exit_code, upstream, rendered>>

\* Between two frames the weather service recovers, for good.
Recover ==
    /\ pc = "tick"
    /\ upstream = "faulty"
    /\ upstream' = "up"
    /\ UNCHANGED <<ctlVars, hist, apiVars, locVars, weather_data, update_pc,
                   last_update, frame_count, exit_code, rendered>>

\* lines 3456-3490: pygame.QUIT or K_ESCAPE among the events of the frame
RunQuit ==
    /\ pc = "events"
    /\ event' \in {"quit", "escape"}
    /\ running' = FALSE
    /\ pc' = "refresh"
    /\ UNCHANGED <<settings, displays, current_display_index, display_timer,
                   is_playing, hist, apiVars, runVars>>

\* lines 3456-3494: no event of the frame clears running
RunEvents ==
    /\ pc = "events"
    /\ event' = "none"
    /\ pc' = "refresh"
    /\ UNCHANGED <<settings, displays, current_display_index, display_timer,
                   is_playing, running, hist, apiVars, runVars>>

\* A refresh started on a loader thread: the loop goes on to draw at once.
RefreshCheck_background ==
    /\ pc = "refresh"
    /\ IF now - last_update > REFRESH_INTERVAL
       THEN /\ update_pc' = "guard"
            /\ last_update' = now
       ELSE UNCHANGED <<update_pc, last_update>>
    /\ pc' = "draw"
    /\ UNCHANGED <<pageVars, running, hist, apiVars, locVars, weather_data,
                   frame_count, exit_code, upstream, rendered>>

\* lines 3496-3499: if time.time() - last_update > 300: update_weather_data()
RefreshCheck ==
    /\ pc = "refresh"
    /\ IF now - last_update > REFRESH_INTERVAL
       THEN /\ pc' = "in_refresh"
            /\ update_pc' = "guard"
       ELSE /\ pc' = "draw"
            /\ UNCHANGED update_pc
    /\ UNCHANGED <<pageVars, running, hist, apiVars, locVars, weather_data,
                   last_update, frame_count, exit_code, upstream, rendered>>

\* line 3500: the call has returned; last_update = time.time()
RefreshReturns ==
    /\ pc = "in_refresh"
    /\ update_pc = "idle"
    /\ last_update' = now
    /\ pc' = "draw"
    /\ UNCHANGED <<pageVars, running, hist, apiVars, locVars, weather_data,
                   update_pc, frame_count, exit_code, upstream, rendered>>

\* lines 3502-3580: the page is drawn from self.weather_data and flipped;
\* when running is False the loop ends, run() and main() return: status 0.
RunDraw ==
    /\ pc = "draw"
    /\ IF running
       THEN /\ pc' = "tick"
            /\ UNCHANGED exit_code
       ELSE /\ pc' = "exited"
            /\ exit_code' = 0
    /\ UNCHANGED <<pageVars, running, hist, apiVars, locVars, weather_data,
                   update_pc, last_update, frame_count, upstream, rendered>>

InitRun ==
    /\ settings = InitialSettings
    /\ displays = update_display_list(InitialSettings)
    /\ current_display_index = 0
    /\ display_timer = 0
    /\ is_playing = TRUE
    /\ running = TRUE
    /\ pc = "construct"
    /\ event = "none"
    /\ hist = << >>
    /\ ApiInit
    /\ screen = "unset"
    /\ point_data = "None"
    /\ office = "None"
    /\ station = "None"
    /\ stations = << >>
    /\ weather_data = NoData
    /\ update_pc = "idle"
    /\ last_update = 0
    /\ frame_count = 0
    /\ exit_code = "none"
    /\ upstream = "faulty"
    /\ rendered = NothingRendered
    /\ AnimInit

NextRun ==
    \/ Construct /\ UNCHANGED animVars
    \/ InitLocationPoint /\ UNCHANGED animVars
    \/ InitLocationStations /\ UNCHANGED animVars
    \/ SelectStation /\ UNCHANGED animVars
    \/ StartInitialUpdate /\ UNCHANGED animVars
    \/ UpdateGuard /\ UNCHANGED animVars
    \/ UpdateObs /\ UNCHANGED animVars
    \/ UpdateForecast /\ UNCHANGED animVars
    \/ UpdateHourly /\ UNCHANGED animVars
    \/ InitialUpdateReturns /\ UNCHANGED animVars
    \/ RunTick /\ UNCHANGED animVars
    \/ Recover /\ UNCHANGED animVars
    \/ RunQuit /\ UNCHANGED animVars
    \/ RunEvents /\ UNCHANGED animVars
    \/ RefreshCheck /\ UNCHANGED animVars
    \/ RefreshReturns /\ UNCHANGED animVars
    \/ RunDraw /\ UNCHANGED animVars

SpecRun == InitRun /\ [][NextRun]_vars

----------------------------------------------------------------------------
(* The two pages whose primary data is one field of the snapshot:          *)
(* draw_current_conditions and draw_local_forecast.  An observation is the *)
(* dict obs['properties']: the keys it has, the temperature and the wind   *)
(* speed by value, the other measurements as "v".  A measurement whose     *)
(* 'value' is null reads like a missing key (.get('value') is None).       *)
(* "timestamp" stands for the keys of the observation that no page reads.  *)
(* What a draw puts on the screen is the set of its elements and the text  *)
(* of the wind and ceiling rows.  The logos, icons and the city name are   *)
(* loaded.                                                                 *)

OptionalFields ==
    {"temperature", "textDescription", "icon", "windSpeed", "windDirection",
     "windGust", "relativeHumidity", "dewpoint", "cloudLayers", "visibility",
     "barometricPressure", "heatIndex", "windChill"}

\* Temperatures in degrees Celsius: below, between and above the two limits.
Temperatures == {WIND_CHILL_BELOW - 5, 20, HEAT_INDEX_ABOVE + 4}

\* Wind speeds: calm and blowing.
WindSpeeds == {0, 10}

Observation(t, w) ==
    [k \in OptionalFields \cup {"timestamp"} |->
        IF k = "temperature" THEN t ELSE IF k = "windSpeed" THEN w ELSE 0]

Observations == {Observation(t, w) : t \in Temperatures, w \in WindSpeeds}

\* del d[key]
Without(d, key) == [k \in (DOMAIN d) \ {key} |-> d[k]]

Has(d, key) == key \in DOMAIN d

Chrome == {"background", "header"}

\* Lines 1481-1491: the text of the wind row.
wind_str(current) ==
    IF Has(current, "windSpeed") /\ current["windSpeed"] > 0
    THEN IF Has(current, "windDirection") THEN "direction speed" ELSE "speed"
    ELSE IF Has(current, "windSpeed") /\ current["windSpeed"] = 0 THEN "Calm"
    ELSE "N/A"

\* A draw that indexes the humidity (current['relativeHumidity']['value']):
\* the KeyError ends the draw before the data rows.
draw_current_conditions_indexing(current) ==
    IF current = EmptyDict
    THEN [page |-> "CURRENT_CONDITIONS", elements |-> Chrome,
          wind |-> "none", ceiling |-> "none", raised |-> FALSE]
    ELSE [page |-> "CURRENT_CONDITIONS",
          elements |->
              Chrome \cup {"wind", "location"}
              \cup (IF Has(current, "temperature") THEN {"temperature"} ELSE {})
              \cup (IF Has(current, "textDescription") THEN {"description"} ELSE {})
              \cup (IF Has(current, "icon") THEN {"icon"} ELSE {})
              \cup (IF Has(current, "windGust") THEN {"gusts"} ELSE {})
              \cup (IF ~Has(current, "relativeHumidity") THEN {}
                    ELSE {"humidity", "ceiling"}
                      \cup (IF Has(current, "dewpoint") THEN {"dewpoint"} ELSE {})
                      \cup (IF Has(current, "visibility") THEN {"visibility"} ELSE {})
                      \cup (IF Has(current, "barometricPressure") THEN {"pressure"} ELSE {})
                      \cup (IF /\ Has(current, "heatIndex")
                               /\ Has(current, "temperature")
                               /\ current["temperature"] > HEAT_INDEX_ABOVE
                            THEN {"heat_index"}
                            ELSE IF /\ Has(current, "windChill")
                                    /\ Has(current, "temperature")
                                    /\ current["temperature"] < WIND_CHILL_BELOW
                                 THEN {"wind_chill"}
                                 ELSE {})),
          wind |-> wind_str(current),
          ceiling |-> IF ~Has(current, "relativeHumidity") THEN "none"
                      ELSE IF Has(current, "cloudLayers") THEN "feet"
                      ELSE "Unlimited",
          raised |-> ~Has(current, "relativeHumidity")]

\* draw_current_conditions, lines 1420-1610, for current =
\* self.weather_data.get('current', {}).
draw_current_conditions(current) ==
    IF current = EmptyDict
    THEN [page |-> "CURRENT_CONDITIONS", elements |-> Chrome,
          wind |-> "none", ceiling |-> "none", raised |-> FALSE]
    ELSE [page |-> "CURRENT_CONDITIONS",
          elements |->
              Chrome \cup {"wind", "location", "ceiling"}
              \cup (IF Has(current, "temperature") THEN {"temperature"} ELSE {})
              \cup (IF Has(current, "textDescription") THEN {"description"} ELSE {})
              \cup (IF Has(current, "icon") THEN {"icon"} ELSE {})
              \cup (IF Has(current, "windGust") THEN {"gusts"} ELSE {})
              \cup (IF Has(current, "relativeHumidity") THEN {"humidity"} ELSE {})
              \cup (IF Has(current, "dewpoint") THEN {"dewpoint"} ELSE {})
              \cup (IF Has(current, "visibility") THEN {"visibility"} ELSE {})
              \cup (IF Has(current, "barometricPressure") THEN {"pressure"} ELSE {})
              \cup (IF /\ Has(current, "heatIndex")
                       /\ Has(current, "temperature")
                       /\ current["temperature"] > HEAT_INDEX_ABOVE
                    THEN {"heat_index"}
                    ELSE IF /\ Has(current, "windChill")
                            /\ Has(current, "temperature")
                            /\ current["temperature"] < WIND_CHILL_BELOW
                         THEN {"wind_chill"}
                         ELSE {}),
          wind |-> wind_str(current),
          ceiling |-> IF Has(current, "cloudLayers") THEN "feet" ELSE "Unlimited",
          raised |-> FALSE]

\* draw_local_forecast, lines 1612-1702, for periods =
\* forecast.get('periods', []): three columns from the first three periods.
draw_local_forecast(periods) ==
    [page |-> "LOCAL_FORECAST",
     elements |-> IF Len(periods) < MIN_PERIODS THEN Chrome
                  ELSE Chrome \cup {"column_1", "column_2", "column_3"},
     wind |-> "none", ceiling |-> "none", raised |-> FALSE]

\* The forecasts: 0 to MaxPeriods periods.
Forecasts == {[i \in 1..n |-> "period"] : n \in 0..MaxPeriods}

\* The frame draws the current-conditions page.
DrawCurrentConditions ==
    /\ pc = "draw"
    /\ rendered' = draw_current_conditions(weather_data.current)
    /\ UNCHANGED <<ctlVars, hist, apiVars, locVars, weather_data, update_pc,
                   last_update, frame_count, exit_code, upstream>>

\* The frame draws the local-forecast page.
DrawLocalForecast ==
    /\ pc = "draw"
    /\ rendered' = draw_local_forecast(weather_data.forecast)
    /\ UNCHANGED <<ctlVars, hist, apiVars, locVars, weather_data, update_pc,
                   last_update, frame_count, exit_code, upstream>>

\* A frame whose refresh (line 3499) brings the same observation without
\* one of its optional fields, and whose draw (line 3507) shows the
\* current-conditions page from it.  At most MaxMissing fields go missing.
ObservationWithout(f) ==
    /\ pc = "draw"
    /\ weather_data.current # EmptyDict
    /\ f \in DOMAIN weather_data.current
    /\ Cardinality(OptionalFields \ DOMAIN weather_data.current) < MaxMissing
    /\ weather_data' =
          [weather_data EXCEPT !.current = Without(weather_data.current, f)]
    /\ rendered' = draw_current_conditions(weather_data'.current)
    /\ UNCHANGED <<ctlVars, hist, apiVars, locVars, update_pc, last_update,
                   frame_count, exit_code, upstream>>

RefreshLosesField == \E f \in OptionalFields : ObservationWithout(f)

\* The loop is at the draw of a frame; the snapshot holds no observation or
\* a complete one, and a forecast of any length.
InitRender ==
    /\ settings = InitialSettings
    /\ displays = update_display_list(InitialSettings)
    /\ current_display_index = 0
    /\ display_timer = 0
    /\ is_playing = TRUE
    /\ running = TRUE
    /\ pc = "draw"
    /\ event = "none"
    /\ hist = << >>
    /\ ApiInit
    /\ screen = "ok"
    /\ point_data = "data"
    /\ office = "set"
    /\ station = KJFK
    /\ stations = << >>
    /\ \E c \in Observations \cup {EmptyDict}, p \in Forecasts :
          weather_data = [current |-> c, forecast |-> p, hourly |-> EmptyDict]
    /\ update_pc = "idle"
    /\ last_update = 0
    /\ frame_count = 0
    /\ exit_code = "none"
    /\ upstream = "faulty"
    /\ rendered = NothingRendered
    /\ AnimInit

NextRender ==
    \/ DrawCurrentConditions /\ UNCHANGED animVars
    \/ DrawLocalForecast /\ UNCHANGED animVars
    \/ RefreshLosesField /\ UNCHANGED animVars

SpecRender == InitRender /\ [][NextRender]_vars

----------------------------------------------------------------------------
(* One whole iteration of the loop of run(): the page draw inside the      *)
(* inner try, the ticker, the flip.  Time is in hundredths of a second, so *)
(* that SCROLL_SPEED (pixels per second) times dt is a whole number of     *)
(* pixels.  A headline is the number of lines it wraps to.  The user       *)
(* presses Next and Previous; the settings menu is left to Spec.           *)

restVars == <<hist, apiVars, point_data, office, station, stations,
              weather_data, update_pc, last_update, exit_code, upstream,
              rendered>>

\* The time.time() differences the ticker sees between two updates.
TickerDts == {TickerDtShort, TickerDtLong}

\* font.size(current_text)[0]: an empty text and a text of some width.
TextWidths == {0, MaxTextWidth}

\* The headline lists given to _display_scrolling_headlines.
HeadlineLists == {<< >>, <<1>>, <<2, 1>>}

Half(px) == 2 * px

\* ScrollingText.update, lines 139-156, dt after the last update; text_items
\* is empty (add_item is never called), current_text stays.
ScrollingText_update(sc, dt) ==
    LET x == sc.scroll_x - (SCROLL_SPEED * dt) \div 100
    IN  IF x < -sc.text_width
        THEN [sc EXCEPT !.scroll_x = SCREEN_WIDTH, !.wrapped = TRUE]
        ELSE [sc EXCEPT !.scroll_x = x, !.wrapped = FALSE]

\* _display_scrolling_headlines, lines 1183-1317: y_pos after the loop over
\* headlines[:20], in half pixels; a headline outside the window (-200, 500)
\* is counted as two lines.
RECURSIVE headlines_end(_, _, _)
headlines_end(y_pos, lines, i) ==
    IF i > Len(lines) \/ i > MAX_HEADLINES THEN y_pos
    ELSE headlines_end(
            IF y_pos > Half(NEWS_ABOVE) /\ y_pos < Half(NEWS_BELOW)
            THEN y_pos + Half(lines[i] * LINE_HEIGHT + HEADLINE_SPACING)
            ELSE y_pos + Half(LINE_HEIGHT * 2 + HEADLINE_SPACING),
            lines, i + 1)

\* lines 1163-1164: the offset of a source is created when the source is
\* first rendered.
create_scroll(d, source) ==
    IF source \in DOMAIN d THEN d ELSE Put(d, source, Half(NEWS_START))

\* _display_scrolling_headlines, lines 1150-1333: self.news_vertical_scroll
\* after one render of the list of a source.
display_scrolling_headlines(d, source, lines) ==
    LET d1 == create_scroll(d, source)
        y_pos == headlines_end(d1[source], lines, 1)
        d2 == Put(d1, source, d1[source] - 1)
    IN  IF y_pos < Half(NEWS_TOP) THEN Put(d2, source, Half(NEWS_RESTART)) ELSE d2

\* The sources draw_msn_news, draw_reddit_news and draw_local_news pass.
NewsSources == {"msn", "reddit", "local"}

\* draw_msn_news, draw_reddit_news, draw_local_news: the source they pass.
news_source(mode) ==
    CASE mode = "MSN_NEWS" -> "msn"
      [] mode = "REDDIT_NEWS" -> "reddit"
      [] mode = "LOCAL_NEWS" -> "local"
      [] OTHER -> "none"

\* lines 3451-3453: frame_count += 1; dt = self.clock.tick(30);
\* self.display_timer += dt
FrameTick ==
    /\ frame_count < MaxFrames
    /\ frame_count' = frame_count + 1
    /\ Tick

\* The draw routines that draw inside screen.set_clip(clip_rect) ...
\* screen.set_clip(None): _display_scrolling_headlines (lines 1176-1320),
\* draw_hourly_forecast (1875-1954) and draw_air_quality (2456-2508).
sets_clip(mode) ==
    mode \in {"MSN_NEWS", "REDDIT_NEWS", "LOCAL_NEWS", "HOURLY_FORECAST",
              "AIR_QUALITY"}

\* How the draw routine of the page ends: it returns, or it raises at its
\* start ("early"), or it raises further on ("late"): for a routine that
\* clips, inside the clipped part, where the news offset exists already.
DrawOutcomes == {"returns", "raises_early", "raises_late"}

\* A draw routine that moved the offset of every list on every page.
draw_page_scrolls_all(d, mode, outcome, lines) ==
    [source \in DOMAIN d |-> d[source] - 1]

\* self.news_vertical_scroll after the draw routine of the page.
draw_page(d, mode, outcome, lines) ==
    IF news_source(mode) = "none" \/ outcome = "raises_early" THEN d
    ELSE IF outcome = "raises_late" THEN create_scroll(d, news_source(mode))
    ELSE display_scrolling_headlines(d, news_source(mode), lines)

\* The clip of self.screen after the draw routine of the page: a routine
\* that clips removes the clip when it reaches its end, no other routine
\* touches it.
clip_after(scr, mode, outcome) ==
    IF ~sets_clip(mode) \/ outcome = "raises_early" THEN scr
    ELSE IF outcome = "raises_late" THEN "clipped"
    ELSE "ok"

\* run(), lines 3502-3570: current_mode = self.displays[...] (an IndexError
\* ends the loop); the draw routine of the page inside try / except
\* Exception, which logs; draw_scrolling_text() updates the ticker and draws
\* the banner and the text at y = 430..460, which every clip rectangle cuts
\* off; pygame.display.flip(); then the test of the while loop.
DrawPage ==
    /\ pc = "draw"
    /\ IF ~IndexValid
       THEN /\ pc' = "crashed"
            /\ UNCHANGED <<screen, scroller, news_vertical_scroll, frame>>
       ELSE LET mode == displays[current_display_index + 1] IN
            \E outcome \in DrawOutcomes, lines \in HeadlineLists, dt \in TickerDts :
               /\ news_vertical_scroll' =
                     draw_page(news_vertical_scroll, mode, outcome, lines)
               /\ screen' = clip_after(screen, mode, outcome)
               /\ scroller' = ScrollingText_update(scroller, dt)
               /\ frame' = [page |-> mode, raised |-> outcome # "returns",
                            ticker |-> screen' # "clipped", flipped |-> TRUE,
                            lines |-> IF news_source(mode) = "none"
                                      THEN << >> ELSE lines]
               /\ pc' = IF running THEN "tick" ELSE "exited"
    /\ UNCHANGED <<settings, displays, current_display_index, display_timer,
                   is_playing, running, event>>

pageAnimVars == <<health_scroll, icon, radar, alerts>>

InitFrame ==
    /\ settings = InitialSettings
    /\ displays = update_display_list(InitialSettings)
    /\ current_display_index = 0
    /\ display_timer = 0
    /\ is_playing = TRUE
    /\ running = TRUE
    /\ pc = "tick"
    /\ event = "none"
    /\ hist = << >>
    /\ ApiInit
    /\ RunInit
    /\ \E w \in TextWidths : scroller = ScrollerInit(w)
    /\ news_vertical_scroll = EmptyDict
    /\ frame = NoFrame
    /\ health_scroll = NoHealthScroll
    /\ icon = NoIcon
    /\ radar = NoRadar
    /\ alerts = NoAlerts

NextFrame ==
    \/ FrameTick /\ UNCHANGED <<restVars, screen, animVars>>
    \/ KeyRight /\ UNCHANGED <<restVars, screen, frame_count, animVars>>
    \/ KeyLeft /\ UNCHANGED <<restVars, screen, frame_count, animVars>>
    \/ EndEvents /\ UNCHANGED <<restVars, screen, frame_count, animVars>>
    \/ AutoCycle /\ UNCHANGED <<restVars, screen, frame_count, animVars>>
    \/ DrawPage /\ UNCHANGED <<restVars, frame_count, pageAnimVars>>

SpecFrame == InitFrame /\ [][NextFrame]_vars

----------------------------------------------------------------------------
(* The scrolling regions, each rendered frame after frame: the ticker of   *)
(* the main program, a news list of the main program, and a news list of   *)
(* WeatherStarNewsDisplays (news_displays.py), which keeps its offsets in  *)
(* news_vertical_scroll of the display object as well.  pc is the routine  *)
(* that is rendered; one news page is in the page list.  Offsets are in    *)
(* half pixels.                                                            *)

ScrollRoutines == {"draw_scrolling_text", "_display_scrolling_headlines",
                   "news_displays._display_scrolling_headlines"}

\* The lists given to the routine of news_displays.py, which cuts every
\* headline to one line: no headline, a few, and more than the screen holds.
Ones(n) == [i \in 1..n |-> 1]
ModuleLists == {Ones(0), Ones(3), Ones(MaxModuleHeadlines)}

\* news_displays.py, line 295: max_scroll, in pixels.
max_scroll(n) ==
    IF n * MODULE_LINE_HEIGHT - MODULE_VISIBLE > 0
    THEN n * MODULE_LINE_HEIGHT - MODULE_VISIBLE ELSE 0

\* news_displays.py, lines 312-340: current_y after the loop, the bottom of
\* the last headline, in half pixels.
module_end(offset, n) == Half(MODULE_START_Y) - offset + Half(n * MODULE_LINE_HEIGHT)

\* A routine that went back to the start only when the list has left the
\* screen at the top.
module_display_wraps_at_end(d, source, n, elapsed) ==
    LET d1 == IF source \in DOMAIN d THEN d ELSE Put(d, source, 0)
        stepped == d1[source] + Half(MODULE_STEP)
    IN  IF ~elapsed THEN d1
        ELSE IF module_end(stepped, n) < 0
             THEN Put(d1, source, Half(MODULE_RESTART))
             ELSE Put(d1, source, stepped)

\* news_displays.py, _display_scrolling_headlines, lines 276-352:
\* self.ws.news_vertical_scroll after one render of n headlines; elapsed:
\* more than 0.1 s since last_news_scroll_time.
module_display_scrolling_headlines(d, source, n, elapsed) ==
    LET d1 == IF source \in DOMAIN d THEN d ELSE Put(d, source, 0)
        stepped == d1[source] + Half(MODULE_STEP)
    IN  IF ~elapsed THEN d1
        ELSE IF stepped > Half(max_scroll(n) + MODULE_PAD)
             THEN Put(d1, source, Half(MODULE_RESTART))
             ELSE Put(d1, source, stepped)

\* draw_scrolling_text, lines 3349-3354: self.scroller.update()
TickerRender ==
    /\ pc = "draw_scrolling_text"
    /\ \E dt \in TickerDts : scroller' = ScrollingText_update(scroller, dt)
    /\ UNCHANGED <<news_vertical_scroll, frame>>

\* A frame that shows a news page.
news_frame(mode, lines) ==
    [page |-> mode, raised |-> FALSE, ticker |-> TRUE, flipped |-> TRUE,
     lines |-> lines]

\* draw_msn_news, draw_reddit_news or draw_local_news of the main program.
MainNewsRender ==
    /\ pc = "_display_scrolling_headlines"
    /\ \E mode \in {"MSN_NEWS", "REDDIT_NEWS", "LOCAL_NEWS"},
          lines \in HeadlineLists :
          /\ DOMAIN news_vertical_scroll \subseteq {news_source(mode)}
          /\ news_vertical_scroll' =
                display_scrolling_headlines(news_vertical_scroll,
                                            news_source(mode), lines)
          /\ frame' = news_frame(mode, lines)
    /\ UNCHANGED scroller

\* draw_local_news of WeatherStarNewsDisplays (lines 81-107), the one page
\* that calls _display_scrolling_headlines there.
ModuleNewsRenderAt(elapsed) ==
    /\ pc = "news_displays._display_scrolling_headlines"
    /\ \E lines \in ModuleLists :
          /\ news_vertical_scroll' =
                module_display_scrolling_headlines(news_vertical_scroll,
                                                   "local", Len(lines), elapsed)
          /\ frame' = news_frame("LOCAL_NEWS", lines)
    /\ UNCHANGED scroller

ModuleNewsRender == \E elapsed \in BOOLEAN : ModuleNewsRenderAt(elapsed)

scrollRest == <<settings, displays, current_display_index, display_timer,
                is_playing, running, pc, event, hist, apiVars, locVars,
                weather_data, update_pc, last_update, frame_count, exit_code,
                upstream, rendered, pageAnimVars>>

InitScroll ==
    /\ settings = InitialSettings
    /\ displays = update_display_list(InitialSettings)
    /\ current_display_index = 0
    /\ display_timer = 0
    /\ is_playing = TRUE
    /\ running = TRUE
    /\ pc \in ScrollRoutines
    /\ event = "none"
    /\ hist = << >>
    /\ ApiInit
    /\ RunInit
    /\ \E w \in TextWidths : scroller = ScrollerInit(w)
    /\ news_vertical_scroll = EmptyDict
    /\ frame = NoFrame
    /\ health_scroll = NoHealthScroll
    /\ icon = NoIcon
    /\ radar = NoRadar
    /\ alerts = NoAlerts

NextScroll ==
    \/ TickerRender /\ UNCHANGED scrollRest
    \/ MainNewsRender /\ UNCHANGED scrollRest
    \/ ModuleNewsRender /\ UNCHANGED scrollRest

\* The loop renders frame after frame, and time.time() advances: of the
\* frames of news_displays.py, again and again one comes more than 0.1 s
\* after last_news_scroll_time.
SpecScroll ==
    /\ InitScroll
    /\ [][NextScroll]_vars
    /\ WF_vars(NextScroll)
    /\ WF_vars(ModuleNewsRenderAt(TRUE) /\ UNCHANGED scrollRest)

----------------------------------------------------------------------------
(* The health recommendations of the Air Quality page, drawn frame after   *)
(* frame.  The page writes a list of three tips, which fits its area; the  *)
(* routine is followed for longer lists as well.  Positions are in half    *)
(* pixels.                                                                 *)

TipCounts == {TIPS, MaxTips - 1, MaxTips}

\* lines 2455 and 2464-2465: total_height - (440 - y_pos), in half pixels.
overflow(tips) == Half(tips * TIP_HEIGHT - (TIPS_BOTTOM - TIPS_TOP))

\* An update that turns round at the two ends without clamping.
health_scroll_overshoots(h) ==
    LET h0 == IF h.exists THEN h ELSE [h EXCEPT !.exists = TRUE, !.dir = 1]
        pos == h0.pos + h0.dir
    IN  IF overflow(h.tips) <= 0
        THEN [h0 EXCEPT !.clamped = FALSE, !.updated = FALSE]
        ELSE IF pos > 0
             THEN [h0 EXCEPT !.pos = pos, !.dir = -1, !.clamped = TRUE,
                             !.updated = TRUE]
             ELSE IF pos < -overflow(h.tips)
                  THEN [h0 EXCEPT !.pos = pos, !.dir = 1, !.clamped = TRUE,
                                  !.updated = TRUE]
                  ELSE [h0 EXCEPT !.pos = pos, !.clamped = FALSE,
                                  !.updated = TRUE]

\* draw_air_quality, lines 2458-2476: health_scroll_pos and
\* health_scroll_dir after one draw; updated: the draw went through the
\* update, clamped: the update set the position to one of the two ends.
health_scroll_update(h) ==
    LET h0 == IF h.exists THEN h ELSE [h EXCEPT !.exists = TRUE, !.dir = 1]
        pos == h0.pos + h0.dir
    IN  IF overflow(h.tips) <= 0
        THEN [h0 EXCEPT !.clamped = FALSE, !.updated = FALSE]
        ELSE IF pos > 0
             THEN [h0 EXCEPT !.pos = 0, !.dir = -1, !.clamped = TRUE,
                             !.updated = TRUE]
             ELSE IF pos < -overflow(h.tips)
                  THEN [h0 EXCEPT !.pos = -overflow(h.tips), !.dir = 1,
                                  !.clamped = TRUE, !.updated = TRUE]
                  ELSE [h0 EXCEPT !.pos = pos, !.clamped = FALSE,
                                  !.updated = TRUE]

\* draw_air_quality reaches its end: the clip is removed (line 2508).
DrawAirQuality ==
    /\ health_scroll' = health_scroll_update(health_scroll)
    /\ screen' = "ok"

\* Another page is drawn, or the Air Quality page raises before its
\* recommendations.
DrawOtherPage ==
    /\ screen' \in {"ok", "clipped"}
    /\ UNCHANGED health_scroll

healthRest == <<ctlVars, hist, apiVars, point_data, office, station, stations,
                weather_data, update_pc, last_update, frame_count, exit_code,
                upstream, rendered, scroller, news_vertical_scroll, frame,
                icon, radar, alerts>>

InitHealth ==
    /\ settings = InitialSettings
    /\ displays = update_display_list(InitialSettings)
    /\ current_display_index = 0
    /\ display_timer = 0
    /\ is_playing = TRUE
    /\ running = TRUE
    /\ pc = "draw"
    /\ event = "none"
    /\ hist = << >>
    /\ ApiInit
    /\ RunInit
    /\ scroller = ScrollerInit(0)
    /\ news_vertical_scroll = EmptyDict
    /\ frame = NoFrame
    /\ \E n \in TipCounts : health_scroll = [NoHealthScroll EXCEPT !.tips = n]
    /\ icon = NoIcon
    /\ radar = NoRadar
    /\ alerts = NoAlerts

NextHealth ==
    \/ DrawAirQuality /\ UNCHANGED healthRest
    \/ DrawOtherPage /\ UNCHANGED healthRest

SpecHealth == InitHealth /\ [][NextHealth]_vars

----------------------------------------------------------------------------
(* An animated icon with several frames: load_gif, then get_current_frame  *)
(* whenever a page draws the icon.  Time is in tenths of a second.         *)

\* The durations of the frames of the GIF files.
IconDurations == {<<1, 2>>, <<2, 1, 1>>}

RECURSIVE Sum(_, _)
Sum(durations, n) == IF n = 0 THEN 0 ELSE Sum(durations, n - 1) + durations[n]

\* lines 125-130: the first i (from 0) with elapsed < accumulated_time, or
\* len(durations) when the loop finds none.
frame_for(durations, elapsed) ==
    LET hits == {i \in 1..Len(durations) : elapsed < Sum(durations, i)}
    IN  IF hits = {} THEN Len(durations)
        ELSE (CHOOSE i \in hits : \A j \in hits : i <= j) - 1

\* AnimatedIcon.get_current_frame, lines 108-137, of an icon with frames.
get_current_frame(ic, current_time) ==
    IF ic.last_update = 0
    THEN [ic EXCEPT !.last_update = current_time, !.started = current_time,
                    !.called_at = current_time, !.returned = 0]
    ELSE LET elapsed == current_time - ic.last_update
             i == frame_for(ic.durations, elapsed)
         IN  IF i < Len(ic.durations)
             THEN [ic EXCEPT !.current_frame = i, !.called_at = current_time,
                             !.returned = i]
             ELSE [ic EXCEPT !.last_update = current_time, !.current_frame = 0,
                             !.called_at = current_time, !.returned = 0]

\* A page draws the icon.
GetCurrentFrame ==
    /\ icon' = get_current_frame(icon, now)
    /\ now' = now

\* time.time() between two draws of the icon.
IconTimePasses ==
    /\ \E d \in 1..MaxGap : now + d <= MaxClock /\ now' = now + d
    /\ UNCHANGED icon

iconRest == <<ctlVars, hist, cache, cache_time, memo, call, fetched_at,
              last_outcome, runVarsNoAnim, scroller, news_vertical_scroll,
              frame, health_scroll, radar, alerts>>

InitIcon ==
    /\ settings = InitialSettings
    /\ displays = update_display_list(InitialSettings)
    /\ current_display_index = 0
    /\ display_timer = 0
    /\ is_playing = TRUE
    /\ running = TRUE
    /\ pc = "draw"
    /\ event = "none"
    /\ hist = << >>
    /\ now = 1
    /\ cache = EmptyDict
    /\ cache_time = EmptyDict
    /\ memo = "unset"
    /\ call = NoCall
    /\ fetched_at = EmptyDict
    /\ last_outcome = EmptyDict
    /\ RunInit
    /\ scroller = ScrollerInit(0)
    /\ news_vertical_scroll = EmptyDict
    /\ frame = NoFrame
    /\ health_scroll = NoHealthScroll
    /\ \E d \in IconDurations : icon = [NoIcon EXCEPT !.durations = d]
    /\ radar = NoRadar
    /\ alerts = NoAlerts

NextIcon ==
    \/ GetCurrentFrame /\ UNCHANGED iconRest
    \/ IconTimePasses /\ UNCHANGED iconRest

SpecIcon == InitIcon /\ [][NextIcon]_vars

----------------------------------------------------------------------------
(* The radar of the modular display: fetch_radar_image of data_fetchers.py *)
(* at every refresh, draw_radar of displays.py whenever the radar page is  *)
(* shown, on the one thread of the loop.  now is pygame.time.get_ticks(),  *)
(* in milliseconds.                                                        *)

\* fetch_radar_image, lines 58-119: at least one of the six frames was
\* loaded; the list is reversed and radar_frame_index = 0.
FetchRadarAnimated ==
    \E n \in 1..RADAR_FRAMES :
       radar' = [radar EXCEPT !.radar_frames = n, !.radar_frame_index = 0]

\* lines 58 and 122-144: no frame was loaded, the static tile was:
\* radar_frames = [base]; radar_frame_index is not assigned.
FetchRadarStatic ==
    radar' = [radar EXCEPT !.radar_frames = 1]

\* lines 58 and 122-170: no frame and no tile was loaded; radar_loaded was
\* never assigned, 'if not radar_loaded' raises UnboundLocalError, the outer
\* except returns False and radar_frames stays [] (the placeholder of lines
\* 150-164 is not reached).
FetchRadarFails ==
    radar' = [radar EXCEPT !.radar_frames = 0]

\* draw_radar, lines 993-1007
draw_radar(r, current_time) ==
    IF r.radar_frames <= 0 THEN [r EXCEPT !.read = "no_frames"]
    ELSE LET r1 == IF r.radar_last_update = -1
                   THEN [r EXCEPT !.radar_last_update = current_time,
                                  !.radar_frame_index = 0]
                   ELSE r
             r2 == IF current_time - r1.radar_last_update > RADAR_FRAME_MS
                   THEN [r1 EXCEPT !.radar_frame_index =
                                      (r1.radar_frame_index + 1) % r1.radar_frames,
                                   !.radar_last_update = current_time]
                   ELSE r1
         IN  [r2 EXCEPT !.read =
                 IF r2.radar_frame_index \in 0..(r2.radar_frames - 1)
                 THEN "frame" ELSE "IndexError"]

DrawRadar == radar' = draw_radar(radar, now)

RadarTimePasses ==
    /\ \E d \in {RadarGapShort, RadarGapLong} :
          now + d <= MaxTicks /\ now' = now + d
    /\ UNCHANGED radar

radarRest == <<ctlVars, hist, cache, cache_time, memo, call, fetched_at,
               last_outcome, runVarsNoAnim, scroller, news_vertical_scroll,
               frame, health_scroll, icon, alerts>>

InitRadar ==
    /\ settings = InitialSettings
    /\ displays = update_display_list(InitialSettings)
    /\ current_display_index = 0
    /\ display_timer = 0
    /\ is_playing = TRUE
    /\ running = TRUE
    /\ pc = "draw"
    /\ event = "none"
    /\ hist = << >>
    /\ ApiInit
    /\ RunInit
    /\ AnimInit

NextRadar ==
    \/ FetchRadarAnimated /\ UNCHANGED <<now, radarRest>>
    \/ FetchRadarStatic /\ UNCHANGED <<now, radarRest>>
    \/ FetchRadarFails /\ UNCHANGED <<now, radarRest>>
    \/ DrawRadar /\ UNCHANGED <<now, radarRest>>
    \/ RadarTimePasses /\ UNCHANGED radarRest

SpecRadar == InitRadar /\ [][NextRadar]_vars

----------------------------------------------------------------------------
(* The EmergencyAlertSystem: check_for_alerts, update_alert_display and    *)
(* draw_emergency_screen, called in any order on one thread.  now is       *)
(* time.time() in seconds, far from 0 when the program starts.             *)

\* check_for_alerts, lines 57-128: the number of significant alerts the
\* service reports replaces the list, or the request fails and the list
\* stays; the index is not assigned.
check_for_alerts(a, current_time, new_alerts, ok) ==
    IF current_time - a.last_check < CHECK_INTERVAL THEN a
    ELSE IF ok THEN [a EXCEPT !.last_check = current_time,
                              !.active_alerts = new_alerts]
         ELSE [a EXCEPT !.last_check = current_time]

\* update_alert_display, lines 288-296
update_alert_display(a, current_time) ==
    IF a.active_alerts > 1 /\ current_time - a.alert_display_time > ALERT_ROTATION
    THEN [a EXCEPT !.current_alert_index =
                      (a.current_alert_index + 1) % a.active_alerts,
                   !.alert_display_time = current_time]
    ELSE a

\* draw_emergency_screen, lines 141-147
draw_emergency_screen(a) ==
    IF a.active_alerts = 0 THEN [a EXCEPT !.drawn = "nothing"]
    ELSE [a EXCEPT !.drawn = IF a.current_alert_index < a.active_alerts
                             THEN "alert" ELSE "IndexError"]

CheckForAlerts ==
    \E new_alerts \in 0..MaxAlerts, ok \in BOOLEAN :
       alerts' = check_for_alerts(alerts, now, new_alerts, ok)

UpdateAlertDisplay == alerts' = update_alert_display(alerts, now)

DrawEmergencyScreen == alerts' = draw_emergency_screen(alerts)

AlertTimePasses ==
    /\ \E d \in {AlertGapShort, AlertGapLong} :
          now + d <= MaxAlertClock /\ now' = now + d
    /\ UNCHANGED alerts

alertRest == <<ctlVars, hist, cache, cache_time, memo, call, fetched_at,
               last_outcome, runVarsNoAnim, scroller, news_vertical_scroll,
               frame, health_scroll, icon, radar>>

InitAlerts ==
    /\ settings = InitialSettings
    /\ displays = update_display_list(InitialSettings)
    /\ current_display_index = 0
    /\ display_timer = 0
    /\ is_playing = TRUE
    /\ running = TRUE
    /\ pc = "draw"
    /\ event = "none"
    /\ hist = << >>
    /\ now = StartTime
    /\ cache = EmptyDict
    /\ cache_time = EmptyDict
    /\ memo = "unset"
    /\ call = NoCall
    /\ fetched_at = EmptyDict
    /\ last_outcome = EmptyDict
    /\ RunInit
    /\ AnimInit

NextAlerts ==
    \/ CheckForAlerts /\ UNCHANGED <<now, alertRest>>
    \/ UpdateAlertDisplay /\ UNCHANGED <<now, alertRest>>
    \/ DrawEmergencyScreen /\ UNCHANGED <<now, alertRest>>
    \/ AlertTimePasses /\ UNCHANGED alertRest

SpecAlerts == InitAlerts /\ [][NextAlerts]_vars

----------------------------------------------------------------------------
(* The loop of run() left alone: no key, no click, playing.  The page list *)
(* is any list update_display_list builds from the four flags.  The loop   *)
(* is one sequential thread that pygame's clock paces, so a step that can  *)
(* be taken is taken: weak fairness of the iteration.                      *)

InitAuto ==
    /\ \E m, n, r, l \in BOOLEAN :
          settings = Put(Put(Put(Put(InitialSettings, "show_marine", m),
                         "show_msn", n), "show_reddit", r), "show_local_news", l)
    /\ displays = update_display_list(settings)
    /\ current_display_index = 0
    /\ display_timer = 0
    /\ is_playing = TRUE
    /\ running = TRUE
    /\ pc = "tick"
    /\ event = "none"
    /\ hist = << >>
    /\ ApiInit
    /\ RunInit
    /\ AnimInit

NextAuto ==
    \/ Tick /\ UNCHANGED <<hist, apiVars, runVars>>
    \/ EndEvents /\ UNCHANGED <<hist, apiVars, runVars>>
    \/ AutoCycle /\ UNCHANGED <<hist, apiVars, runVars>>
    \/ DrawFrame /\ UNCHANGED <<hist, apiVars, runVars>>

SpecAuto == InitAuto /\ [][NextAuto]_vars /\ WF_vars(NextAuto)

----------------------------------------------------------------------------
(* Claims about the slide controller *)

Range(list) == {list[i] : i \in 1..Len(list)}

\* C1: after every sequence of Next, Previous and page-list rebuilds,
\* current_display_index lies in [0, len(displays)); a rebuild that shortens
\* the list brings the index back into range.
C1_IndexAlwaysInRange ==
    current_display_index \in 0..(Len(displays) - 1)

\* C2: a frame tick adds dt to the elapsed time of the current page, and the
\* frame advances to the next page (index + 1 modulo the list length, elapsed
\* reset to 0) if and only if auto-advance is on and the elapsed time has
\* reached 15000 ms; no tick changes the page while auto-advance is off.
C2_TickAdvancesIffDue ==
    [][ /\ (pc = "tick" =>
              /\ \E d \in Dts : display_timer' = display_timer + d
              /\ current_display_index' = current_display_index)
        /\ (pc = "auto" =>
              IF is_playing /\ display_timer >= DISPLAY_DURATION_MS
              THEN /\ current_display_index' =
                        (current_display_index + 1) % Len(displays)
                   /\ display_timer' = 0
              ELSE /\ current_display_index' = current_display_index
                   /\ display_timer' = display_timer) ]_vars

\* C5: Next sets the index to (i + 1) mod n and Previous to (i - 1) mod n for
\* list length n, both reset elapsed to 0, whether auto-advance is on or off.
C5_NextPreviousCyclic ==
    [][ /\ (pc = "events" /\ event' = "right" =>
              /\ current_display_index' =
                   (current_display_index + 1) % Len(displays)
              /\ display_timer' = 0)
        /\ (pc = "events" /\ event' = "left" =>
              /\ current_display_index' =
                   (current_display_index - 1) % Len(displays)
              /\ display_timer' = 0) ]_vars

\* C6: the elapsed time is reset to 0 exactly in the steps in which
\* current_display_index changes: every change of the index resets it, and
\* no step that leaves the index unchanged resets it.
C6_ResetExactlyOnIndexChange ==
    [][ /\ (current_display_index' # current_display_index =>
              display_timer' = 0)
        /\ (current_display_index' = current_display_index /\ display_timer # 0 =>
              display_timer' # 0) ]_vars

\* C6 witness: Previous from the first page has wrapped to the last page
\* and the elapsed time is 0, after time had been spent on the first page.
C6_Witness ==
    /\ pc = "events"
    /\ event = "left"
    /\ current_display_index = Len(displays) - 1
    /\ display_timer = 0

\* C9 as claimed: enabling an optional page in the settings menu while a
\* page is displayed leaves current_display_index unchanged and leaves the
\* page identifier found at that index unchanged.
C9_EnableKeepsPage ==
    [][ (pc = "menu" /\ Len(displays') > Len(displays) /\ IndexValid) =>
          /\ current_display_index' = current_display_index
          /\ displays'[current_display_index' + 1] =
                displays[current_display_index + 1] ]_vars

\* The 0-based position at which the page that was not in the old list
\* stands in the new one.
EnteredAt(old, new) ==
    CHOOSE p \in 0..(Len(new) - 1) : new[p + 1] \notin Range(old)

\* C9 amended: enabling an optional page in the settings menu leaves
\* current_display_index unchanged; the new page enters at index 9 (marine)
\* or after all core pages (news pages); the identifier at the current index
\* is unchanged if the index is below that position, and it is a different
\* page if the index is at or above it.
C9_EnableKeepsIndex ==
    [][ (pc = "menu" /\ Len(displays') > Len(displays)) =>
          LET p == EnteredAt(displays, displays')
              i == current_display_index
          IN  /\ current_display_index' = i
              /\ Len(displays') = Len(displays) + 1
              /\ (event' = "menu_1" => p = MARINE_INSERT_AT)
              /\ (event' # "menu_1" => p >= Len(base_displays))
              /\ (i < p => displays'[i + 1] = displays[i + 1])
              /\ (p <= i /\ i < Len(displays) =>
                     displays'[i + 1] # displays[i + 1]) ]_vars

\* C9 witness: the marine page has just been enabled while index 9 was
\* current, and index 9 now holds the marine page.
C9_Witness ==
    /\ pc = "menu"
    /\ event = "menu_1"
    /\ Get(settings, "show_marine", FALSE)
    /\ current_display_index = MARINE_INSERT_AT
    /\ displays[current_display_index + 1] = "MARINE_FORECAST"

\* C10: the pause/resume command flips the auto-advance flag and changes
\* nothing else: the page index and the elapsed time are the same before
\* and after the toggle.
C10_PauseTogglesOnlyFlag ==
    [][ (pc = "events" /\ event' = "space") =>
          /\ is_playing' = ~is_playing
          /\ current_display_index' = current_display_index
          /\ display_timer' = display_timer
          /\ UNCHANGED <<displays, settings, running, pc>> ]_vars

\* C10 witness: Space has just paused the show on a later page with time
\* already spent on it.
C10_Witness ==
    /\ pc = "events"
    /\ event = "space"
    /\ ~is_playing
    /\ current_display_index > 0
    /\ display_timer > 0

----------------------------------------------------------------------------
(* Claims about the page list *)

\* C7: building the active page list is a pure function of the settings
\* flags: a rebuild from the same flags as one of the two previous rebuilds
\* started from yields the same sequence, so toggling a flag false, true,
\* false gives back the original sequence, identifier by identifier.
C7_RebuildIsFunctionOfFlags ==
    \A i \in 1..Len(hist) :
        hist[i].flags = Flags(settings) => hist[i].list = displays

\* C7 witness: the marine flag went false, true, false; the flags are those
\* of two rebuilds ago and differ from those of the previous rebuild.
C7_Witness ==
    /\ event = "menu_1"
    /\ Len(hist) = 2
    /\ ~Get(settings, "show_marine", FALSE)
    /\ hist[1].flags[1] = TRUE
    /\ hist[2].flags = Flags(settings)

\* C8 as claimed: the list contains all core pages in one fixed relative
\* order and every enabled optional page is appended after the core pages,
\* so the index of a core page does not depend on the optional pages.
C8_OptionalPagesAfterCore ==
    /\ Len(displays) >= Len(base_displays)
    /\ \A i \in 1..Len(base_displays) : displays[i] = base_displays[i]

IsCore(mode) == mode \in Range(base_displays)
IsNews(mode) == mode \in {"MSN_NEWS", "REDDIT_NEWS", "LOCAL_NEWS"}

EnabledNews(s) ==
    (IF Get(s, "show_msn", FALSE) THEN <<"MSN_NEWS">> ELSE << >>)
    \o (IF Get(s, "show_reddit", FALSE) THEN <<"REDDIT_NEWS">> ELSE << >>)
    \o (IF Get(s, "show_local_news", FALSE) THEN <<"LOCAL_NEWS">> ELSE << >>)

\* C8 amended: the list contains all core pages in one fixed relative order;
\* the enabled news pages (MSN, Reddit, local news) follow the core pages in
\* that fixed order; the marine page, when enabled, stands at index 9, so
\* the core pages at indices 0..8 keep their index and each later core page
\* is one index higher when the marine page is enabled.
C8_CoreOrderAndOptionalPlaces ==
    LET m == IF Get(settings, "show_marine", FALSE) THEN 1 ELSE 0
        n == Len(base_displays)
    IN  /\ SelectSeq(displays, IsCore) = base_displays
        /\ SelectSeq(displays, IsNews) = EnabledNews(settings)
        /\ SubSeq(displays, n + m + 1, Len(displays)) = EnabledNews(settings)
        /\ \A i \in 1..MARINE_INSERT_AT : displays[i] = base_displays[i]
        /\ \A i \in (MARINE_INSERT_AT + 1)..n :
              displays[i + m] = base_displays[i]
        /\ (m = 1 => displays[MARINE_INSERT_AT + 1] = "MARINE_FORECAST")
        /\ Len(displays) = n + m + Len(EnabledNews(settings))

\* C8 witness: the marine page and all three news pages have been enabled
\* from the menu.
C8_Witness ==
    /\ Len(hist) > 0
    /\ Flags(settings) = <<TRUE, TRUE, TRUE, TRUE>>
    /\ displays[MARINE_INSERT_AT + 1] = "MARINE_FORECAST"
    /\ displays[Len(displays)] = "LOCAL_NEWS"

----------------------------------------------------------------------------
(* Claims about the cache of the API clients *)

\* A step in which an API operation is called for key k.
CallStep(k) == now' = now /\ call'.op = k

\* C3: for every cache key and max-age m, a call that fetched at time t0
\* followed by a call with the same key at time t1 issues no second upstream
\* request if and only if t1 - t0 < m, and issues one if and only if
\* t1 - t0 >= m (3600 s, 3600 s, 300 s, 1800 s, 1800 s).
C3_RefetchIffExpired ==
    [][ \A k \in Keys :
          (CallStep(k) /\ k \in DOMAIN fetched_at) =>
             (call'.issued <=> now - fetched_at[k] >= MaxAge(k)) ]_vars

\* C4: when the upstream fetch of an operation fails, no value and no
\* timestamp are stored for the key, the caller receives the no-data
\* sentinel, and the failure is not remembered: the next call for the same
\* key issues the request again.
C4_FailureNotRemembered ==
    [][ \A k \in Keys :
          /\ (CallStep(k) /\ last_outcome'[k] = "failed" =>
                /\ call'.result = "None"
                /\ call'.issued
                /\ cache' = cache
                /\ cache_time' = cache_time)
          /\ (CallStep(k) /\ k \in DOMAIN last_outcome
                /\ last_outcome[k] = "failed" => call'.issued) ]_vars

\* The request failed: a network error or a timeout, a status outside
\* 200..299, or a body that cannot be parsed.
RequestFailed(r) ==
    \/ r.err # "none"
    \/ r.status < 200 \/ r.status > 299
    \/ r.body = "garbage"

\* C11: every weather API operation (grid point, stations, current
\* observations, forecast, hourly forecast) returns the no-data value and
\* never raises to its caller when the HTTP request fails with a network
\* error or timeout, returns a non-2xx status, or returns a body that cannot
\* be parsed.
C11_FailedRequestGivesNoData ==
    [][ \A k \in Keys :
          (CallStep(k) /\ call'.issued /\ RequestFailed(call'.resp)) =>
             call'.result = "None" ]_vars

----------------------------------------------------------------------------
(* Claims about startup, the refresh and the exit status *)

Fields == {"current", "forecast", "hourly"}

\* The snapshot field the fetch at position p of update_weather_data feeds.
FieldOf(p) == IF p = "obs" THEN "current" ELSE p

\* A step of update_weather_data that makes one of the three fetches.
FetchStep == update_pc \in {"obs", "forecast", "hourly"} /\ update_pc' # update_pc

\* C12: in a weather refresh each of the three snapshot fields (current,
\* forecast, hourly) is overwritten only when its own fetch succeeded; a
\* failed sub-fetch leaves that field exactly at its previous value and does
\* not affect the other two fields: they keep their value in that step and
\* their own fetches still follow.
C12_FieldWrittenOnlyOnOwnSuccess ==
    [][ FetchStep =>
          LET f == FieldOf(update_pc) IN
          /\ (weather_data'[f] # weather_data[f] =>
                /\ call'.op = update_pc
                /\ call'.issued
                /\ call'.result # "None"
                /\ ~RequestFailed(call'.resp))
          /\ (call'.result = "None" => weather_data' = weather_data)
          /\ \A g \in Fields \ {f} : weather_data'[g] = weather_data[g]
          /\ update_pc' = (CASE update_pc = "obs" -> "forecast"
                             [] update_pc = "forecast" -> "hourly"
                             [] update_pc = "hourly" -> "idle") ]_vars

\* C12 witness: in a refresh after startup the observations fetch failed
\* and the forecast fetch succeeded: current still holds the data of the
\* initial update, forecast holds data of this refresh.
C12_Witness ==
    /\ pc = "in_refresh"
    /\ update_pc = "hourly"
    /\ Get(last_outcome, "obs", "none") = "failed"
    /\ weather_data.current = {0}
    /\ weather_data.forecast = {now}
    /\ now > 0

\* C13: while the main loop runs, a refresh is performed every 5 minutes and
\* every fetch that failed earlier (including a failed station-list lookup
\* at startup) is attempted again at the next refresh, so that once the
\* upstream has recovered the data is loaded: a refresh that ran wholly
\* after the recovery ends with all three fields loaded, provided the
\* station is missing for no other reason than a failed lookup.
C13_RefreshAfterRecoveryLoadsData ==
    [][ ( /\ pc = "in_refresh"
          /\ pc' = "draw"
          /\ running
          /\ upstream = "up"
          /\ (station # "None" \/ Get(last_outcome, "stations", "none") = "failed") ) =>
          \A f \in Fields : weather_data'[f] # {} ]_vars

\* The identifier qualifies: exactly 4 characters, not starting with U or C.
Qualifies(id) == Len(id) = 4 /\ id[1] # "U" /\ id[1] # "C"

\* C14: station selection over the ordered station list returns the first
\* identifier that has exactly 4 characters and does not start with 'U' or
\* 'C'; if no identifier qualifies it returns the first identifier of the
\* list; if the list is empty no station is selected.
C14_StationSelection ==
    pc = "call_update" =>
       LET n == Len(stations)
           Q == {i \in 1..n : Qualifies(stations[i])}
       IN  /\ (n = 0 => station = "None")
           /\ (n > 0 /\ Q = {} => station = stations[1])
           /\ (Q # {} => \E i \in Q : /\ station = stations[i]
                                      /\ \A j \in Q : i <= j)

\* C14 witness: the list starts with a 4-character identifier in U and a
\* 5-character one, and the third, which has U and C inside, was selected.
C14_Witness ==
    /\ pc = "call_update"
    /\ stations = <<UHHH, BUOY5, KUCA>>
    /\ station = KUCA

\* C15: the process terminates with exit code 1 whenever startup fails
\* unrecoverably (the display cannot be initialised, or the location cannot
\* be initialised because the grid-point lookup fails) and with exit code 0
\* in every other termination, including user quit.
C15_ExitCodes ==
    pc = "exited" =>
       exit_code = (IF screen = "failed" \/ point_data = "None" THEN 1 ELSE 0)

\* C18: no page render ever observes a weather snapshot in the middle of an
\* update: whenever the loop is at the page draw, update_weather_data is
\* not under way, so every render happens entirely before or entirely after
\* a refresh has written its fields.
C18_RenderNeverDuringUpdate ==
    pc = "draw" => update_pc = "idle"

\* C18 witness: the loop is at the page draw of a frame whose refresh has
\* just rewritten the observations.
C18_Witness ==
    /\ pc = "draw"
    /\ now > 0
    /\ last_update = now
    /\ weather_data.current = {now}
    /\ weather_data.forecast # {}

\* The frame loop of run().
LoopPcs == {"tick", "events", "refresh", "draw"}

----------------------------------------------------------------------------
(* Claims about the settings menu *)

\* C20: no settings-menu command ends the run: after any sequence of menu
\* key presses (toggles, volume key, refresh key R, Escape, click outside
\* the menu) the frame loop is still running, and it stops only on a Quit
\* event or Escape in the main view: whenever the loop has ended, running
\* had been cleared by one of those two events.
C20_OnlyQuitEndsRun ==
    pc \in {"crashed", "exited"} => ~running

----------------------------------------------------------------------------
(* Claims about the rendering of the pages *)

\* The element of the current-conditions page that shows field f.
OwnElement(f) ==
    CASE f = "temperature" -> "temperature"
      [] f = "textDescription" -> "description"
      [] f = "icon" -> "icon"
      [] f \in {"windSpeed", "windDirection"} -> "wind"
      [] f = "windGust" -> "gusts"
      [] f = "relativeHumidity" -> "humidity"
      [] f = "dewpoint" -> "dewpoint"
      [] f = "cloudLayers" -> "ceiling"
      [] f = "visibility" -> "visibility"
      [] f = "barometricPressure" -> "pressure"
      [] f = "heatIndex" -> "heat_index"
      [] f = "windChill" -> "wind_chill"

\* A step in which the observation loses field f and the current-conditions
\* page, drawn from it before, is drawn again.
LosesField(f) ==
    /\ rendered.page = "CURRENT_CONDITIONS"
    /\ f \in DOMAIN weather_data.current
    /\ weather_data'.current = Without(weather_data.current, f)

\* The humidity part of C16: drawn from a record without the humidity field
\* the page does not raise, has no humidity row, and still has the
\* temperature (when the record has one) and the wind.
HumidityMissingIsHarmless ==
    (rendered'.page = "CURRENT_CONDITIONS"
        /\ weather_data'.current # EmptyDict
        /\ "relativeHumidity" \notin DOMAIN weather_data'.current) =>
       /\ ~rendered'.raised
       /\ "humidity" \notin rendered'.elements
       /\ "wind" \in rendered'.elements
       /\ ("temperature" \in DOMAIN weather_data'.current =>
              "temperature" \in rendered'.elements)

C17_AbsentDataShowsIndicator ==
    LET absent ==
          \/ rendered.page = "CURRENT_CONDITIONS"
                /\ weather_data.current = EmptyDict
          \/ rendered.page = "LOCAL_FORECAST"
                /\ Len(weather_data.forecast) < MIN_PERIODS
    IN  absent =>
           /\ Chrome \subseteq rendered.elements
           /\ "data_unavailable" \in rendered.elements

\* The optional pages: the menu key, the setting and the page identifier.
OptionalPages ==
    { [key |-> "menu_1", name |-> "show_marine", page |-> "MARINE_FORECAST"],
      [key |-> "menu_5", name |-> "show_msn", page |-> "MSN_NEWS"],
      [key |-> "menu_6", name |-> "show_reddit", page |-> "REDDIT_NEWS"],
      [key |-> "menu_7", name |-> "show_local_news", page |-> "LOCAL_NEWS"] }

\* C21: for each optional page (marine, MSN, Reddit, local news), starting
\* from the initial settings, every press of its toggle key in the settings
\* menu flips whether that page is in the active list, and the checkbox the
\* menu shows for it always equals its membership in the active list.
C21_ToggleFlipsAndCheckboxAgrees ==
    [][ \A o \in OptionalPages :
          /\ (pc = "menu" /\ event' = o.key =>
                (o.page \in Range(displays')) # (o.page \in Range(displays)))
          /\ (pc' = "menu" =>
                menu_items(settings')[o.name] = (o.page \in Range(displays'))) ]_vars

----------------------------------------------------------------------------
(* Claims about one iteration of the loop *)

\* C22: an exception raised by the draw routine of the current page is
\* contained in that frame: the loop keeps running, the ticker is still
\* updated and drawn and the frame is presented in the same iteration, and
\* the page index, elapsed time and auto-advance flag are unchanged by the
\* failure.
C22_DrawFailureContained ==
    [][ (pc = "draw" /\ IndexValid /\ frame'.raised) =>
          /\ pc' = "tick"
          /\ running'
          /\ \E dt \in TickerDts : scroller' = ScrollingText_update(scroller, dt)
          /\ frame'.ticker
          /\ frame'.flipped
          /\ current_display_index' = current_display_index
          /\ display_timer' = display_timer
          /\ is_playing' = is_playing ]_vars

\* C24: page transitions never reset or modify animation state: the scroll
\* position of the ticker is unchanged by Next, Previous and auto-advance,
\* and the vertical offset of a news list is created by the first render of
\* that list, changes only in frames that render that list, and keeps its
\* value while other pages are shown.
C24_TransitionsKeepAnimationState ==
    [][ /\ (current_display_index' # current_display_index =>
              /\ scroller' = scroller
              /\ news_vertical_scroll' = news_vertical_scroll)
        /\ \A source \in NewsSources :
              /\ (\/ (source \in DOMAIN news_vertical_scroll')
                         # (source \in DOMAIN news_vertical_scroll)
                   \/ /\ source \in DOMAIN news_vertical_scroll
                      /\ source \in DOMAIN news_vertical_scroll'
                      /\ news_vertical_scroll'[source]
                            # news_vertical_scroll[source]
                   =>
                    /\ pc = "draw"
                    /\ IndexValid
                    /\ news_source(displays[current_display_index + 1]) = source)
              /\ (/\ pc = "draw"
                  /\ IndexValid
                  /\ news_source(displays[current_display_index + 1]) = source
                  /\ ~frame'.raised
                  => source \in DOMAIN news_vertical_scroll') ]_vars

\* The list of Reddit has been rendered and scrolled, and another page is
\* shown since.
C24_Witness ==
    /\ "reddit" \in DOMAIN news_vertical_scroll
    /\ news_vertical_scroll["reddit"] < Half(NEWS_START)
    /\ frame.flipped
    /\ news_source(frame.page) # "reddit"
    /\ current_display_index # 0

----------------------------------------------------------------------------
(* Claims about the loop left alone *)

\* Every page identifier the list can hold.
AllPages ==
    Range(base_displays) \cup {"MARINE_FORECAST", "MSN_NEWS", "REDDIT_NEWS",
                               "LOCAL_NEWS"}

\* The frame being drawn shows page p.
Showing(p) ==
    /\ pc = "draw"
    /\ IndexValid
    /\ displays[current_display_index + 1] = p

\* C23: with auto-advance on and no input, every page of the active list is
\* shown again and again, under fair scheduling of the iterations of the
\* loop.
C23_AutoAdvanceVisitsEveryPage ==
    \A p \in AllPages : []<>(p \in Range(displays) => Showing(p))

\* Auto-advance has gone through the whole list and wrapped to its first
\* page.
C23_Witness ==
    /\ pc = "draw"
    /\ current_display_index = 0
    /\ display_timer = 0
    /\ Len(displays) > 1

----------------------------------------------------------------------------
(* Claims about the scrolling regions *)

\* The offset a render of the source starts from.
offset_before(source, start) ==
    IF source \in DOMAIN news_vertical_scroll
    THEN news_vertical_scroll[source] ELSE start

\* The step renders the news page of frame'.
RendersNews(routine) ==
    /\ pc = routine
    /\ frame'.flipped
    /\ news_source(frame'.page) \in DOMAIN news_vertical_scroll'

\* The ticker goes left, and goes back to the right edge in the update in
\* which it has left the screen.
TickerWraps ==
    pc = "draw_scrolling_text" /\ scroller' # scroller =>
       IF scroller'.wrapped
       THEN /\ scroller'.scroll_x = SCREEN_WIDTH
            /\ \E dt \in TickerDts :
                  scroller.scroll_x - (SCROLL_SPEED * dt) \div 100
                     < -scroller.text_width
       ELSE /\ scroller'.scroll_x < scroller.scroll_x
            /\ scroller'.scroll_x >= -scroller.text_width

\* The main program: the list goes up half a pixel a frame, and restarts in
\* the frame in which the cursor below the last headline is above the top
\* of the scroll area.
MainNewsWraps ==
    RendersNews("_display_scrolling_headlines") =>
       LET source == news_source(frame'.page)
           o == offset_before(source, Half(NEWS_START))
       IN  news_vertical_scroll'[source] =
              IF headlines_end(o, frame'.lines, 1) < Half(NEWS_TOP)
              THEN Half(NEWS_RESTART) ELSE o - 1

\* news_displays.py: the list goes up two pixels a scroll step, and restarts
\* in the step that takes the offset beyond max_scroll + 100.
ModuleNewsWraps ==
    RendersNews("news_displays._display_scrolling_headlines") =>
       LET source == news_source(frame'.page)
           o == offset_before(source, 0)
           stepped == o + Half(MODULE_STEP)
       IN  news_vertical_scroll'[source] \in
              {o, IF stepped > Half(max_scroll(Len(frame'.lines)) + MODULE_PAD)
                  THEN Half(MODULE_RESTART) ELSE stepped}

\* The tallest list the main program is given, in half pixels.
MaxListHeight ==
    CHOOSE h \in {headlines_end(0, l, 1) : l \in HeadlineLists} :
       \A l \in HeadlineLists : headlines_end(0, l, 1) <= h

\* Every offset is within a fixed range.
OffsetsBounded ==
    /\ scroller.scroll_x <= SCREEN_WIDTH
    /\ scroller.scroll_x >= -scroller.text_width
    /\ \A source \in DOMAIN news_vertical_scroll :
          IF pc = "news_displays._display_scrolling_headlines"
          THEN /\ news_vertical_scroll[source] >= Half(MODULE_RESTART)
               /\ news_vertical_scroll[source]
                     <= Half(max_scroll(MaxModuleHeadlines) + MODULE_PAD)
          ELSE /\ news_vertical_scroll[source] <= Half(NEWS_RESTART)
               /\ news_vertical_scroll[source]
                     >= Half(NEWS_TOP) - MaxListHeight - 1

\* The region that is rendered has just gone back to its start.
Wrapped ==
    CASE pc = "draw_scrolling_text" -> scroller.wrapped
      [] pc = "_display_scrolling_headlines" ->
            \E source \in DOMAIN news_vertical_scroll :
               news_vertical_scroll[source] = Half(NEWS_RESTART)
      [] OTHER ->
            \E source \in DOMAIN news_vertical_scroll :
               news_vertical_scroll[source] = Half(MODULE_RESTART)

----------------------------------------------------------------------------
(* Claims about the health recommendations *)

----------------------------------------------------------------------------
(* Claims about the animated icons *)

\* C27: for an icon of several frames the frame get_current_frame returns
\* depends on wall-clock time only: at elapsed time e since the start of
\* the animation it is the index i with sum(durations[0..i-1]) <=
\* (e mod total duration) < sum(durations[0..i]); and current_frame is
\* always a valid index of frames.
C27_FrameFollowsWallClock ==
    /\ icon.current_frame \in 0..(Len(icon.durations) - 1)
    /\ icon.returned # -1 =>
          LET total == Sum(icon.durations, Len(icon.durations))
              e == (icon.called_at - icon.started) % total
          IN  /\ icon.returned \in 0..(Len(icon.durations) - 1)
              /\ Sum(icon.durations, icon.returned) <= e
              /\ e < Sum(icon.durations, icon.returned + 1)

----------------------------------------------------------------------------
(* Claims about the periodic refresh *)

\* C28: every periodic refresh (started when more than 300 s have passed
\* since the previous refresh completed) issues a new upstream request for
\* the current observations: the cache entry of the observations (max-age
\* 300 s) is never still fresh when a periodic refresh reads it.
C28_PeriodicRefreshRequestsObservations ==
    [][ pc = "in_refresh" =>
          /\ update_pc = "guard" => update_pc' = "obs"
          /\ update_pc = "obs" => call'.op = "obs" /\ call'.issued ]_vars

----------------------------------------------------------------------------
(* Claims about the radar *)

\* C29: under every interleaving of radar refreshes (fetch_radar_image with
\* its fallback and placeholder paths) and renders of the radar page
\* (draw_radar), radar_frame_index is a valid index of radar_frames whenever
\* draw_radar reads radar_frames[radar_frame_index].
C29_RadarIndexValidWhenRead == radar.read # "IndexError"

----------------------------------------------------------------------------
(* Claims about the emergency alerts *)

\* C30: under every interleaving of check_for_alerts (which replaces
\* active_alerts), update_alert_display (which rotates the index) and
\* draw_emergency_screen, current_alert_index is a valid index of
\* active_alerts whenever active_alerts is not empty and an alert is drawn.
C30_AlertIndexValidWhenDrawn == alerts.drawn # "IndexError"

====
